---------------------------- MODULE Spec2Model ----------------------------
(***************************************************************************)
(* A model of the k3s-deploy-backend provisioning engine.                  *)
(*                                                                         *)
(* The deployment machine follows one ExecuteStep call from its dispatch   *)
(* to the returned DeployResponse, one action per remote operation         *)
(* (Connect, ExecuteCommand, UploadFile, Close).  What a remote host       *)
(* answers is chosen by \E among the answers ExecuteCommand can return:    *)
(* a result with exit status 0, a result with a non-zero exit status, or   *)
(* no result at all (the session could not be created).                    *)
(*                                                                         *)
(* The script machine applies modifyScriptSelective to a script given as   *)
(* a sequence of lines; the batch machine runs the per-node workers of     *)
(* the batch connectivity test.                                            *)
(***************************************************************************)
EXTENDS Integers, Sequences, FiniteSets, TLC

(***************************************************************************)
(* Bounds of the model.                                                    *)
(***************************************************************************)
MaxNodes == 3
MaxMounts == 2
MaxScriptLen == 5
MaxYears == 3
MaxBatch == 3
MaxAgentNodes == 4
MaxExitCode == 2
MaxCalls == 3
MaxRequests == 2
MaxInvocations == 2
MaxTerminals == 2
MaxCommands == 1
MaxTaskNodes == 2
MaxLabels == 1

(***************************************************************************)
(* Program constants.                                                      *)
(***************************************************************************)
masterRoleName == "k3s-master"
agentBaseName == "k3s-agent"
clientExpirationYears == 100
daysInYear == 365
verifyAttempts == 18
deployPolls == 30
requiredSpaceGB == 450
testDomainCount == 5

VARIABLES
    req,         \* the DeployRequest: [Step, Nodes], Nodes a sequence of node names
    pc,          \* the place the ExecuteStep call has reached
    resp,        \* the DeployResponse returned, or NoResp
    err,         \* the error value travelling back to the caller ("nil" for none)
    masterNode,  \* index in req.Nodes of the resolved master, 0 for the zero value
    idx,         \* loop position in req.Nodes (ValidateNodes, configureAgentStep)
    agentIndex,  \* configureAgentStep's agentIndex
    conn,        \* per client variable: the node it dials and the state of its conn
    open,        \* per node index: number of sessions now open to it
    touched,     \* node indexes a Connect was attempted on during this call
    log,         \* the remote operations issued, as <<client, operation>> pairs, in the
                 \* current step-level operation
    hostDf,      \* the mount listing the node's df command answers with
    pre,         \* locals of checkSystemRequirements
    inst,        \* locals of the installer
    mgr,         \* locals of the cluster application manager
    script,      \* script machine: input lines
    opts,        \* script machine: ModifyOptions
    modified,    \* script machine: output lines, or NotRun
    bnodes,      \* batch machine: ids of the nodes of the request
    bpc,         \* batch machine: place of the handler goroutine
    wpc,         \* batch machine: place of each worker goroutine
    results,     \* batch machine: the results slice
    writes,      \* batch machine: the <<worker, slot>> writes to results, in the order made
    clientConn,  \* ssh client: the conn field of one Client (nil, open or closed)
    calls,       \* ssh client: the ExecuteCommand calls made, each with what the
                 \* transport did and what the call returned
    hkind,       \* HTTP handlers: the kind of each concurrent request
    hpc,         \* HTTP handlers: the instruction each request is at
    hloc,        \* HTTP handlers: each request's locals
    nodesMap,    \* HTTP handlers: the keys of the node-credential registry
    taskProgress, \* HTTP handlers: the status stored for each deployment task
    mu,          \* HTTP handlers: the holder of nodesMu and of taskMu (0: free)
    accesses,    \* HTTP handlers: the map accesses made, each with whether the
                 \* accessing request held the map's mutex
    ipc,         \* concurrent installs: the place of each install-master invocation
    host,        \* concurrent installs: the master node: whether the k3s binary is
                 \* there, and the invocation that last wrote the staged script
                 \* and the PKI files (0: nobody)
    ran,         \* concurrent installs: the invocations that executed the script
    clobbered,   \* concurrent installs: the invocations whose staged files were
                 \* overwritten by another one while they were installing
    term,        \* web terminal: each connection's node id, place and locals
    sshSessions, \* web terminal: the session registry, per node id the connection
                 \* whose *SSHSession is stored and its UsePTY flag
    sshMu,       \* web terminal: the connection holding sshMu (0: free)
    task         \* deployment task: its request, the goroutine's place and the
                 \* ProgressResponse stored under its task id

deployVars == <<req, pc, resp, err, masterNode, idx, agentIndex, conn, open,
                touched, log, hostDf, pre, inst, mgr>>
scriptVars == <<script, opts, modified>>
batchVars == <<bnodes, bpc, wpc, results, writes>>
sshVars == <<clientConn, calls>>
handlerVars == <<hkind, hpc, hloc, nodesMap, taskProgress, mu, accesses>>
raceVars == <<ipc, host, ran, clobbered>>
termVars == <<term, sshSessions, sshMu>>
taskVars == <<task>>
webVars == <<termVars, taskVars>>
extVars == <<sshVars, handlerVars, raceVars, webVars>>
vars == <<deployVars, scriptVars, batchVars, extVars>>


(***************************************************************************)
(* Requests.                                                               *)
(***************************************************************************)
NodeNames == {masterRoleName, "worker"}
StepNames == {"validate", "install-master", "configure-agent", "apply-labels",
              "deploy-insuite", "verify"}
ClientVars == {"client", "masterClient", "agentClient"}
NoResp == [Success |-> FALSE, Message |-> "no response yet", Step |-> "no response yet"]
NoConn == [node |-> 0, st |-> "nil"]

NodeLists(n) == UNION {[1..k -> NodeNames] : k \in 0..n}

\* Name field of a NodeConfig held by index; index 0 is the zero value.
NodeNameOf(m) == IF m = 0 THEN "" ELSE req.Nodes[m]

openSessions == {c \in ClientVars : conn[c].st = "open"}

(***************************************************************************)
(* The remote executor.                                                    *)
(***************************************************************************)
\* What ExecuteCommand can return: (result, nil), (result, err) after a
\* non-zero exit, (nil, err) when no session could be created.
Rsp(okOuts, exitOuts) ==
    {[kind |-> "ok", out |-> o] : o \in okOuts}
        \cup {[kind |-> "exit", out |-> o] : o \in exitOuts}
        \cup {[kind |-> "transport", out |-> ""]}
IsErr(r) == r.kind # "ok"
Plain == Rsp({""}, {""})

\* Client.Connect on client variable c towards node n; the zero-value node
\* has no address and cannot be dialled.
DoConnect(c, n, ok) ==
    /\ touched' = touched \cup {n}
    /\ conn' = [conn EXCEPT ![c] = [node |-> n, st |-> IF ok THEN "open" ELSE "nil"]]
    /\ open' = IF ok THEN [open EXCEPT ![n] = @ + 1] ELSE open

\* A Close that leaves the conn as it is.
DoCloseNoop(c) == UNCHANGED <<conn, open>>

\* Client.Close: closes the conn when there is one.
DoClose(c) ==
    /\ conn' = [conn EXCEPT ![c].st = IF @ = "open" THEN "closed" ELSE @]
    /\ open' = IF conn[c].st = "open" THEN [open EXCEPT ![conn[c].node] = @ - 1] ELSE open

\* ExecuteCommand / UploadFile through client variable c.
Issue(c, op) == log' = log \cup {<<c, op>>}

(***************************************************************************)
(* DeployService: ExecuteStep and the six step handlers.                   *)
(***************************************************************************)
RECURSIVE FindFrom(_, _)
FindFrom(nodes, k) ==
    IF k > Len(nodes) THEN 0
    ELSE IF nodes[k] = masterRoleName THEN k
    ELSE FindFrom(nodes, k + 1)

\* for _, node := range req.Nodes { if node.Name == "k3s-master" { ...; break } }
FindMaster(nodes) == FindFrom(nodes, 1)

\* A handler that goes on with the zero-value node.
MasterNeverMissing(m) == FALSE

\* if masterNode.Name == "" { return fmt.Errorf("未找到Master节点") }
MasterMissing(m) == NodeNameOf(m) = ""

ExecuteStep ==
    /\ pc = "ExecuteStep"
    /\ IF req.Step \in StepNames
         THEN pc' = req.Step /\ resp' = resp
         ELSE /\ pc' = "done"
              /\ resp' = [Success |-> FALSE, Message |-> "unknown step", Step |-> ""]
    /\ UNCHANGED <<req, err, masterNode, idx, agentIndex, conn, open, touched,
                   log, hostDf, pre, inst, mgr,
                   scriptVars, batchVars, extVars>>

ExecuteStepReturn ==
    /\ pc = "ExecuteStepReturn"
    /\ pc' = "done"
    /\ resp' = IF err # "nil"
                 THEN [Success |-> FALSE, Message |-> err, Step |-> req.Step]
                 ELSE [Success |-> TRUE, Message |-> "step succeeded", Step |-> req.Step]
    /\ UNCHANGED <<req, err, masterNode, idx, agentIndex, conn, open, touched,
                   log, hostDf, pre, inst, mgr,
                   scriptVars, batchVars, extVars>>

validateStep ==
    /\ pc = "validate"
    /\ pc' = "ValidateNodes"
    /\ idx' = 1
    /\ UNCHANGED <<req, resp, err, masterNode, agentIndex, conn, open, touched,
                   log, hostDf, pre, inst, mgr,
                   scriptVars, batchVars, extVars>>

\* The master lookup shared by the five handlers that need the master.
WithMaster(step, entry) ==
    /\ pc = step
    /\ masterNode' = FindMaster(req.Nodes)
    /\ IF MasterMissing(masterNode')
         THEN err' = "master not found" /\ pc' = "ExecuteStepReturn"
         ELSE err' = err /\ pc' = entry

installMasterStep ==
    /\ WithMaster("install-master", "InstallMaster")
    /\ UNCHANGED <<req, resp, idx, agentIndex, conn, open, touched, log, hostDf,
                   pre, inst, mgr,
                   scriptVars, batchVars, extVars>>

configureAgentStep ==
    /\ WithMaster("configure-agent", "configureAgentLoop")
    /\ idx' = 1
    /\ agentIndex' = 0
    /\ UNCHANGED <<req, resp, conn, open, touched, log, hostDf, pre, inst, mgr,
                   scriptVars, batchVars, extVars>>

applyLabelsStep ==
    /\ WithMaster("apply-labels", "ApplyLabels")
    /\ UNCHANGED <<req, resp, idx, agentIndex, conn, open, touched, log, hostDf,
                   pre, inst, mgr,
                   scriptVars, batchVars, extVars>>

deployInSuiteStep ==
    /\ WithMaster("deploy-insuite", "DeployInSuite")
    /\ UNCHANGED <<req, resp, idx, agentIndex, conn, open, touched, log, hostDf,
                   pre, inst, mgr,
                   scriptVars, batchVars, extVars>>

verifyStep ==
    /\ WithMaster("verify", "VerifyDeployment")
    /\ UNCHANGED <<req, resp, idx, agentIndex, conn, open, touched, log, hostDf,
                   pre, inst, mgr,
                   scriptVars, batchVars, extVars>>

(***************************************************************************)
(* K3sService.ValidateNodes.                                               *)
(***************************************************************************)
ValidateNodesConnect ==
    /\ pc = "ValidateNodes"
    /\ idx <= Len(req.Nodes)
    /\ \E ok \in BOOLEAN :
         /\ DoConnect("client", idx, ok)
         /\ IF ok THEN pc' = "CsrOsRelease" /\ err' = err
                  ELSE pc' = "ExecuteStepReturn" /\ err' = "connect failed"
    /\ log' = {}
    /\ UNCHANGED <<req, resp, masterNode, idx, agentIndex, hostDf, pre, inst, mgr,
                   scriptVars, batchVars, extVars>>

ValidateNodesDone ==
    /\ pc = "ValidateNodes"
    /\ idx > Len(req.Nodes)
    /\ err' = "nil"
    /\ pc' = "ExecuteStepReturn"
    /\ UNCHANGED <<req, resp, masterNode, idx, agentIndex, conn, open, touched,
                   log, hostDf, pre, inst, mgr,
                   scriptVars, batchVars, extVars>>

\* checkSystemRequirements has returned: client.Close() on both branches.
\* pre.path, what the node answered about the default data path, ends here.
ValidateNodesChecked ==
    /\ pc = "ValidateNodesChecked"
    /\ DoClose("client")
    /\ IF err # "nil" THEN pc' = "ExecuteStepReturn" /\ idx' = idx
                      ELSE pc' = "ValidateNodes" /\ idx' = idx + 1
    /\ pre' = [pre EXCEPT !.path = ""]
    /\ UNCHANGED <<req, resp, err, masterNode, agentIndex, touched, log, hostDf,
                   inst, mgr,
                   scriptVars, batchVars, extVars>>

(***************************************************************************)
(* K3sService.checkSystemRequirements, one action per remote command.      *)
(***************************************************************************)
csrFrame == <<req, resp, masterNode, idx, agentIndex, conn, open, touched,
              hostDf, inst, mgr, scriptVars, batchVars, extVars>>
CsrFail(e) == err' = e /\ pc' = "ValidateNodesChecked"
CsrGo(p) == err' = err /\ pc' = p

supportedDistros == {"ubuntu", "debian", "raspbian", "rhel", "centos", "fedora",
                     "opensuse", "suse", "alpine", "uoss", "kylin", "deepin"}
\* The /etc/os-release texts a node may hold, named by their ID line; "noid"
\* is a text without an ID line.
OsReleases == {"ubuntu", "centos", "alpine", "arch", "noid"}
\* osID: the value of the first line starting with "id=".
OsId(text) == IF text = "noid" THEN "" ELSE text
\* The distribution words a release text contains (ID and ID_LIKE).
OsWords(text) ==
    CASE text = "ubuntu" -> {"ubuntu", "debian"}
      [] text = "centos" -> {"centos", "rhel", "fedora"}
      [] text = "alpine" -> {"alpine"}
      [] text = "arch" -> {"arch"}
      [] OTHER -> {}
isUbuntu(text) == OsWords(text) \cap {"ubuntu", "debian", "raspbian"} # {}
isFirewalldBased(text) ==
    OsWords(text) \cap {"centos", "rhel", "fedora", "opensuse", "suse"} # {}
FirewallEntry(text) ==
    IF isUbuntu(text) THEN "CsrUfwStatus"
    ELSE IF isFirewalldBased(text) THEN "CsrFirewalldStatus"
    ELSE "CsrCpu"

\* An allow-list that lets every identifier through.
AnySupported(osID) == TRUE

\* for _, distro := range supportedDistros { if osID == distro { supported = true } }
Supported(osID) == osID \in supportedDistros

\* pre.osRelease is the release text the node answered with.
CsrOsRelease ==
    /\ pc = "CsrOsRelease"
    /\ Issue("client", "cat /etc/os-release")
    /\ \E r \in Rsp(OsReleases, {""}) :
         IF IsErr(r) THEN CsrFail("cannot read os-release") /\ pre' = [pre EXCEPT !.osRelease = ""]
         ELSE /\ pre' = [pre EXCEPT !.osRelease = r.out]
              /\ IF OsId(r.out) = "" THEN CsrFail("os id unparsable")
                 ELSE IF ~Supported(OsId(r.out)) THEN CsrFail("os not supported")
                 ELSE CsrGo("CsrRoot")
    /\ UNCHANGED csrFrame

\* strings.TrimSpace(result.Stdout) of what id -u prints.
Euid(out) == IF out = "0\n" THEN "0" ELSE IF out = "1000\n" THEN "1000" ELSE out

\* pre.euid is the effective user id the node answered with.
CsrRoot ==
    /\ pc = "CsrRoot"
    /\ Issue("client", "id -u")
    /\ \E r \in Rsp({"0\n", "1000\n"}, {""}) :
         IF IsErr(r) THEN CsrFail("cannot get euid") /\ pre' = [pre EXCEPT !.euid = ""]
         ELSE /\ pre' = [pre EXCEPT !.euid = Euid(r.out)]
              /\ IF Euid(r.out) # "0" THEN CsrFail("not root") ELSE CsrGo("CsrDns")
    /\ UNCHANGED csrFrame

CsrDns ==
    /\ pc = "CsrDns"
    /\ Issue("client", "nslookup www.baidu.com")
    /\ \E r \in Rsp({"Name:", ""}, {""}) :
         IF ~IsErr(r) /\ r.out = "Name:" THEN CsrGo("CsrDomain") ELSE CsrGo("CsrDnsBackup")
    /\ pre' = [pre EXCEPT !.d = 1]
    /\ UNCHANGED csrFrame

CsrDnsBackup ==
    /\ pc = "CsrDnsBackup"
    /\ Issue("client", "cp resolv.conf")
    /\ \E r \in Plain :
         IF IsErr(r) THEN CsrFail("resolv.conf backup failed") ELSE CsrGo("CsrDnsAppend")
    /\ UNCHANGED <<pre, csrFrame>>

CsrDnsAppend ==
    /\ pc = "CsrDnsAppend"
    /\ Issue("client", "append nameservers")
    /\ \E r \in Plain :
         IF IsErr(r) THEN CsrFail("resolv.conf edit failed") ELSE CsrGo("CsrDnsRecheck")
    /\ UNCHANGED <<pre, csrFrame>>

CsrDnsRecheck ==
    /\ pc = "CsrDnsRecheck"
    /\ Issue("client", "nslookup www.baidu.com")
    /\ \E r \in Rsp({"Name:", ""}, {""}) :
         IF IsErr(r) \/ r.out # "Name:" THEN CsrFail("dns still failing")
         ELSE CsrGo("CsrDomain")
    /\ UNCHANGED <<pre, csrFrame>>

\* for _, domain := range testDomains
CsrDomain ==
    /\ pc = "CsrDomain"
    /\ Issue("client", "nslookup mirror domain")
    /\ \E r \in Rsp({"Name:", ""}, {""}) :
         IF IsErr(r) \/ r.out # "Name:" THEN CsrFail("domain unresolvable") /\ pre' = pre
         ELSE IF pre.d < testDomainCount
                THEN CsrGo("CsrDomain") /\ pre' = [pre EXCEPT !.d = @ + 1]
         ELSE CsrGo("CsrPing") /\ pre' = pre
    /\ UNCHANGED csrFrame

CsrPing ==
    /\ pc = "CsrPing"
    /\ Issue("client", "ping")
    /\ \E r \in Rsp({"success", "fail"}, {""}) :
         IF IsErr(r) \/ r.out # "success" THEN CsrFail("network unavailable")
         ELSE CsrGo("CsrSwap")
    /\ UNCHANGED <<pre, csrFrame>>

CsrSwap ==
    /\ pc = "CsrSwap"
    /\ Issue("client", "swapon -s")
    /\ \E r \in Rsp({"", "swap in use"}, {""}) :
         IF ~IsErr(r) /\ r.out # "" THEN CsrGo("CsrSwapoff") ELSE CsrGo("CsrNm")
    /\ UNCHANGED <<pre, csrFrame>>

CsrSwapoff ==
    /\ pc = "CsrSwapoff"
    /\ Issue("client", "swapoff -a")
    /\ \E r \in Plain : IF IsErr(r) THEN CsrFail("swapoff failed") ELSE CsrGo("CsrSwapFstab")
    /\ UNCHANGED <<pre, csrFrame>>

CsrSwapFstab ==
    /\ pc = "CsrSwapFstab"
    /\ Issue("client", "sed fstab")
    /\ \E r \in Plain :
         IF IsErr(r) THEN CsrFail("fstab edit failed") ELSE CsrGo("CsrSwapRecheck")
    /\ UNCHANGED <<pre, csrFrame>>

CsrSwapRecheck ==
    /\ pc = "CsrSwapRecheck"
    /\ Issue("client", "swapon -s")
    /\ \E r \in Rsp({"", "swap in use"}, {""}) :
         IF ~IsErr(r) /\ r.out # "" THEN CsrFail("swap still on") ELSE CsrGo("CsrNm")
    /\ UNCHANGED <<pre, csrFrame>>

CsrNm ==
    /\ pc = "CsrNm"
    /\ Issue("client", "is-active nm-cloud-setup")
    /\ \E r \in Rsp({"active", "inactive"}, {""}) :
         IF ~IsErr(r) /\ r.out = "active" THEN CsrGo("CsrNmDisable")
         ELSE CsrGo(FirewallEntry(pre.osRelease))
    /\ UNCHANGED <<pre, csrFrame>>

CsrNmDisable ==
    /\ pc = "CsrNmDisable"
    /\ Issue("client", "disable nm-cloud-setup")
    /\ \E r \in Plain :
         IF IsErr(r) THEN CsrFail("nm-cloud-setup disable failed")
         ELSE CsrGo(FirewallEntry(pre.osRelease))
    /\ UNCHANGED <<pre, csrFrame>>

\* What an answer of a firewall status command shows of the firewall: active
\* when the output is one of the given texts, unknown when the command could
\* not be run or ended with a non-zero status.  pre.fw holds it from the
\* firewall step to the start of the CPU check.
Observed(r, activeOuts) ==
    IF IsErr(r) THEN "unknown" ELSE IF r.out \in activeOuts THEN "active" ELSE "inactive"

\* command -v ufw && dpkg -l ufw >/dev/null 2>&1 && ufw status || echo inactive
CsrUfwStatus ==
    /\ pc = "CsrUfwStatus"
    /\ Issue("client", "ufw status")
    /\ \E r \in Rsp({"path, status: active", "path, status: inactive", "inactive"}, {""}) :
         /\ IF ~IsErr(r) /\ r.out = "path, status: active" THEN CsrGo("CsrUfwDisable")
            ELSE CsrGo("CsrCpu")
         /\ pre' = [pre EXCEPT !.fw = Observed(r, {"path, status: active"})]
    /\ UNCHANGED csrFrame

CsrUfwDisable ==
    /\ pc = "CsrUfwDisable"
    /\ Issue("client", "ufw disable")
    /\ \E r \in Plain : IF IsErr(r) THEN CsrFail("ufw disable failed") ELSE CsrGo("CsrUfwRecheck")
    /\ UNCHANGED <<pre, csrFrame>>

CsrUfwRecheck ==
    /\ pc = "CsrUfwRecheck"
    /\ Issue("client", "ufw status")
    /\ \E r \in Rsp({"status: active", "status: inactive"}, {""}) :
         /\ IF ~IsErr(r) /\ r.out = "status: active" THEN CsrFail("ufw still active")
            ELSE CsrGo("CsrCpu")
         /\ pre' = [pre EXCEPT !.fw = IF IsErr(r) THEN @ ELSE Observed(r, {"status: active"})]
    /\ UNCHANGED csrFrame

\* command -v systemctl && rpm -q firewalld >/dev/null 2>&1 &&
\*     systemctl is-active firewalld || echo inactive
\* The path printed by command -v is part of the output, and the code compares
\* the whole trimmed output with "active": the stop/disable branch is not taken.
CsrFirewalldStatus ==
    /\ pc = "CsrFirewalldStatus"
    /\ Issue("client", "firewalld status")
    /\ \E r \in Rsp({"path, active", "path, inactive", "inactive"}, {""}) :
         /\ IF ~IsErr(r) /\ r.out = "active" THEN CsrGo("CsrFirewalldStop")
            ELSE CsrGo("CsrCpu")
         /\ pre' = [pre EXCEPT !.fw = Observed(r, {"path, active", "active"})]
    /\ UNCHANGED csrFrame

\* nproc, then strconv.Atoi
CsrCpu ==
    /\ pc = "CsrCpu"
    /\ Issue("client", "nproc")
    /\ \E r \in Rsp({"8", "2", "not a number"}, {""}) :
         IF IsErr(r) THEN CsrFail("cannot get cpu count")
         ELSE IF r.out = "not a number" THEN CsrFail("cpu count unparsable")
         ELSE CsrGo("CsrMem")
    /\ pre' = [pre EXCEPT !.fw = ""]
    /\ UNCHANGED csrFrame

CsrMem ==
    /\ pc = "CsrMem"
    /\ Issue("client", "free -m")
    /\ \E r \in Rsp({"32768", "8192", "", "not a number"}, {""}) :
         IF IsErr(r) \/ r.out = "" THEN CsrFail("cannot get memory size")
         ELSE IF r.out = "not a number" THEN CsrFail("memory size unparsable")
         ELSE CsrGo("CsrDisk")
    /\ UNCHANGED <<pre, csrFrame>>

(***************************************************************************)
(* The disk step of checkSystemRequirements.                               *)
(*                                                                         *)
(* A line of the df listing is given by its number of whitespace-separated *)
(* fields, its second field (the mount point) and its third field (the     *)
(* available space: a number and a unit suffix; the header line's third    *)
(* field is the word "on").  Space is counted in 1/1024 GB so that the     *)
(* code's floating-point GB values compare as integers.                    *)
(***************************************************************************)
Mounts == {"/", "/data"}
Avails == {<<0, "G">>, <<100, "G">>, <<500, "G">>, <<512000, "M">>, <<1, "T">>,
           <<900, "K">>}
DfHeader == [nf |-> 4, target |-> "Mounted", num |-> 0, unit |-> "on"]
DfShort == [nf |-> 2, target |-> "/", num |-> 500, unit |-> "G"]
DfLines == {[nf |-> 3, target |-> m, num |-> a[1], unit |-> a[2]] :
              m \in Mounts, a \in Avails} \cup {DfHeader, DfShort}
DfListings(n) == UNION {[1..k -> DfLines] : k \in 0..n}

\* strings.HasSuffix(avail, "G") / "M" / "T"; anything else: continue
HasSizeUnit(line) == line.unit \in {"G", "M", "T"}
\* availGB, in 1/1024 GB
AvailGB(line) ==
    CASE line.unit = "G" -> line.num * 1024
      [] line.unit = "M" -> line.num
      [] line.unit = "T" -> line.num * 1024 * 1024
      [] OTHER -> 0
\* A comparison that lets a later mount of equal space win.
AtLeast(availGB, maxSpaceGB) == availGB >= maxSpaceGB

\* if availGB > maxSpaceGB
Exceeds(availGB, maxSpaceGB) == availGB > maxSpaceGB

RECURSIVE DiskScan(_, _, _)
DiskScan(lines, k, best) ==
    IF k > Len(lines) THEN best
    ELSE IF lines[k].nf < 3 \/ ~HasSizeUnit(lines[k]) THEN DiskScan(lines, k + 1, best)
    ELSE IF Exceeds(AvailGB(lines[k]), best.maxSpaceGB)
           THEN DiskScan(lines, k + 1, [maxSpaceGB |-> AvailGB(lines[k]),
                                        maxMountPoint |-> lines[k].target])
    ELSE DiskScan(lines, k + 1, best)

\* maxSpaceGB := float64(0); var maxMountPoint string; for _, line := range lines
SelectMount(lines) == DiskScan(lines, 1, [maxSpaceGB |-> 0, maxMountPoint |-> ""])

CsrDisk ==
    /\ pc = "CsrDisk"
    /\ Issue("client", "df")
    /\ \E r \in Plain :
         IF IsErr(r) THEN CsrFail("cannot list partitions") /\ pre' = pre
         ELSE LET best == SelectMount(hostDf) IN
              /\ pre' = [pre EXCEPT !.maxSpaceGB = best.maxSpaceGB,
                                    !.maxMountPoint = best.maxMountPoint]
              /\ IF best.maxMountPoint = "" THEN CsrFail("no usable partition")
                 ELSE IF best.maxMountPoint # "/" THEN CsrGo("CsrMkdirData")
                 ELSE CsrGo("ValidateNodesChecked")
    /\ UNCHANGED csrFrame

CsrMkdirData ==
    /\ pc = "CsrMkdirData"
    /\ Issue("client", "mkdir data dir")
    /\ \E r \in Plain : IF IsErr(r) THEN CsrFail("mkdir data dir failed") ELSE CsrGo("CsrStat")
    /\ UNCHANGED <<pre, csrFrame>>

CsrStat ==
    /\ pc = "CsrStat"
    /\ Issue("client", "stat default dir")
    /\ \E r \in Plain : IF IsErr(r) THEN CsrGo("CsrMkdirParent") ELSE CsrGo("CsrTestSymlink")
    /\ UNCHANGED <<pre, csrFrame>>

CsrTestSymlink ==
    /\ pc = "CsrTestSymlink"
    /\ Issue("client", "test -L default dir")
    /\ \E r \in Rsp({"symlink", "not_symlink"}, {""}) :
         IF ~IsErr(r) /\ r.out = "symlink"
           THEN CsrGo("ValidateNodesChecked") /\ pre' = [pre EXCEPT !.path = "symlink"]
           ELSE CsrGo("CsrTestDir") /\ pre' = pre
    /\ UNCHANGED csrFrame

CsrTestDir ==
    /\ pc = "CsrTestDir"
    /\ Issue("client", "test -d default dir")
    /\ \E r \in Rsp({"directory", "not_directory"}, {""}) :
         IF ~IsErr(r) /\ r.out = "directory"
           THEN CsrGo("ValidateNodesChecked") /\ pre' = [pre EXCEPT !.path = "directory"]
           ELSE CsrGo("CsrMkdirParent") /\ pre' = pre
    /\ UNCHANGED csrFrame

CsrMkdirParent ==
    /\ pc = "CsrMkdirParent"
    /\ Issue("client", "mkdir parent dir")
    /\ \E r \in Plain : IF IsErr(r) THEN CsrFail("mkdir parent failed") ELSE CsrGo("CsrLn")
    /\ UNCHANGED <<pre, csrFrame>>

CsrLn ==
    /\ pc = "CsrLn"
    /\ Issue("client", "ln -sf")
    /\ \E r \in Plain :
         IF IsErr(r) THEN CsrFail("symlink failed") ELSE CsrGo("ValidateNodesChecked")
    /\ UNCHANGED <<pre, csrFrame>>

(***************************************************************************)
(* Installer: script mutation.  A script is the sequence of the lines      *)
(* bufio.Scanner yields; a line is its text and, for the injected          *)
(* certificate line, the number printed by %d.                             *)
(***************************************************************************)
officialInstallURL == "https://get.k3s.io"
officialCNInstallURL == "https://rancher-mirror.rancher.cn/k3s/k3s-install.sh"

Line(t) == [text |-> t, n |-> 0]
SetupEnvOpen == Line("setup_env() {")
CreateEnvOpen == Line("create_env_file() {")
Brace == Line("}")
Other == Line("    other")
RegistryCall == Line("    setup_registry")
CertLine(days) ==
    [text |-> "    echo 'CATTLE_NEW_SIGNED_CERT_EXPIRATION_DAYS=%d' | $SUDO tee -a ${FILE_K3S_ENV} >/dev/null",
     n |-> days]

ScriptLines == {SetupEnvOpen, CreateEnvOpen, Brace, Other}
Scripts(n) == UNION {[1..k -> ScriptLines] : k \in 0..n}
NotRun == <<Line("not run")>>

\* The scan shared by addRegistrySetup and addCertificateConfig: every line is
\* copied; after a line that opens the routine, the lines up to the first line
\* equal to "}" are copied and the injection is written before that line.
RECURSIVE InjectFrom(_, _, _, _, _)
InjectFrom(lines, k, inside, opener, inj) ==
    IF k > Len(lines) THEN <<>>
    ELSE IF ~inside
           THEN <<lines[k]>> \o InjectFrom(lines, k + 1, lines[k] = opener, opener, inj)
    ELSE IF lines[k] = Brace
           THEN <<inj, lines[k]>> \o InjectFrom(lines, k + 1, FALSE, opener, inj)
    ELSE <<lines[k]>> \o InjectFrom(lines, k + 1, TRUE, opener, inj)

\* A registry pass that injects nothing.
NoRegistrySetup(s) == s

\* A registry pass that writes the call at the end of the output when the
\* scan wrote it nowhere.
RegistrySetupAtEnd(s) ==
    LET out == InjectFrom(s, 1, FALSE, SetupEnvOpen, RegistryCall)
    IN  IF out = s THEN s \o <<RegistryCall>> ELSE out

addRegistrySetup(s) == InjectFrom(s, 1, FALSE, SetupEnvOpen, RegistryCall)

\* A year of 366 days.
LeapYearDays(years, days) == years * 366

\* calculatedCertExpirationDays := clientExpirationYears * daysInYear
calculatedCertExpirationDays(years, days) == years * days

addCertificateConfig(s, years, days) ==
    InjectFrom(s, 1, FALSE, CreateEnvOpen, CertLine(calculatedCertExpirationDays(years, days)))

modifyScriptSelective(s, options) ==
    LET afterRegistry == IF options.EnableRegistry THEN addRegistrySetup(s) ELSE s
    IN  IF options.EnableCertConfig
          THEN addCertificateConfig(afterRegistry, options.ClientExpirationYears,
                                    options.DaysInYear)
          ELSE afterRegistry

\* The ModifyOptions executeInstall builds for each install URL.
InstallOptions(installURL) ==
    [EnableRegistry |-> installURL = officialCNInstallURL,
     EnableCertConfig |-> TRUE,
     ClientExpirationYears |-> clientExpirationYears,
     DaysInYear |-> daysInYear]

\* One pass of the mutation over the input script.
ModifyScript ==
    /\ modified = NotRun
    /\ modified' = modifyScriptSelective(script, opts)
    /\ UNCHANGED <<script, opts, deployVars, batchVars, extVars>>

(***************************************************************************)
(* K3sService.InstallMaster and K3sService.ConfigureAgent.                 *)
(***************************************************************************)
NoInst == [target |-> "none", client |-> "client", nodeName |-> <<>>, token |-> "",
           masterIP |-> "", installURL |-> "", isDomestic |-> FALSE, altPath |-> 0,
           script |-> NotRun, caStep |-> 0, caPair |-> 0, caErr |-> "not run",
           files |-> {}, env |-> <<>>, args |-> <<>>, attempt |-> 0,
           executed |-> FALSE, lastNil |-> FALSE, present |-> FALSE,
           probes |-> <<>>, listing |-> "none", logged |-> <<>>]

\* Agent names numbered from the loop index itself.
ZeroBasedAgentName(i) == IF i > 0 THEN <<agentBaseName, i>> ELSE <<agentBaseName>>

\* agentNodeName := "k3s-agent"; if agentIndex > 0 { Sprintf("k3s-agent-%d", agentIndex+1) }
AgentNodeName(i) == IF i > 0 THEN <<agentBaseName, i + 1>> ELSE <<agentBaseName>>

svcFrame == <<req, resp, masterNode, hostDf, pre, mgr, scriptVars, batchVars, extVars>>

InstallMasterConnect ==
    /\ pc = "InstallMaster"
    /\ \E ok \in BOOLEAN :
         /\ DoConnect("client", masterNode, ok)
         /\ IF ok THEN pc' = "InstWhich" /\ err' = err
                  ELSE pc' = "ExecuteStepReturn" /\ err' = "connect master failed"
    /\ log' = {}
    /\ inst' = [NoInst EXCEPT !.target = "server", !.client = "client",
                              !.nodeName = <<masterRoleName>>]
    /\ UNCHANGED <<idx, agentIndex, svcFrame>>

\* defer client.Close(), run when installer.InstallMaster has returned
InstallMasterReturn ==
    /\ pc = "InstallMasterReturn"
    /\ DoClose("client")
    /\ pc' = "ExecuteStepReturn"
    /\ UNCHANGED <<err, idx, agentIndex, touched, log, inst, svcFrame>>

\* configureAgentStep's loop is over: return nil
configureAgentDone ==
    /\ pc = "configureAgentLoop"
    /\ idx > Len(req.Nodes)
    /\ err' = "nil"
    /\ pc' = "ExecuteStepReturn"
    /\ UNCHANGED <<idx, agentIndex, conn, open, touched, log, inst, svcFrame>>

\* if node.Name != "k3s-master" is false: the node is passed over
configureAgentSkip ==
    /\ pc = "configureAgentLoop"
    /\ idx <= Len(req.Nodes)
    /\ req.Nodes[idx] = masterRoleName
    /\ idx' = idx + 1
    /\ UNCHANGED <<pc, err, agentIndex, conn, open, touched, log, inst, svcFrame>>

\* ConfigureAgent(masterNode, node, agentIndex): masterClient.Connect()
ConfigureAgentConnectMaster ==
    /\ pc = "configureAgentLoop"
    /\ idx <= Len(req.Nodes)
    /\ req.Nodes[idx] # masterRoleName
    /\ \E ok \in BOOLEAN :
         /\ DoConnect("masterClient", masterNode, ok)
         /\ IF ok THEN pc' = "GetNodeToken" /\ err' = err
                  ELSE pc' = "ExecuteStepReturn" /\ err' = "connect master for token failed"
    /\ log' = {}
    /\ inst' = [NoInst EXCEPT !.target = "agent", !.client = "agentClient"]
    /\ UNCHANGED <<idx, agentIndex, svcFrame>>

\* strings.TrimSpace on the texts the token file may hold: a token followed
\* by a newline, nothing, or white space only.
TrimSpace(out) ==
    CASE out = "K10token\n" -> "K10token"
      [] out = "K20token\n" -> "K20token"
      [] out = "\n" -> ""
      [] OTHER -> out

\* A token check that lets every text through.
TokenNeverEmpty(out) == FALSE

\* token := strings.TrimSpace(result.Stdout); if token == ""
TokenEmpty(out) == TrimSpace(out) = ""

\* Manager.GetNodeToken
GetNodeToken ==
    /\ pc = "GetNodeToken"
    /\ Issue("masterClient", "cat node-token")
    /\ \E r \in Rsp({"K10token\n", "K20token\n", "", "\n"}, {""}) :
         IF IsErr(r) THEN err' = "token read failed" /\ pc' = "ConfigureAgentTokenFail" /\ inst' = inst
         ELSE IF TokenEmpty(r.out)
                THEN err' = "token empty" /\ pc' = "ConfigureAgentTokenFail" /\ inst' = inst
         ELSE /\ err' = err /\ pc' = "ConfigureAgentConnectAgent"
              /\ inst' = [inst EXCEPT !.token = TrimSpace(r.out)]
    /\ UNCHANGED <<idx, agentIndex, conn, open, touched, svcFrame>>

\* if err != nil { masterClient.Close(); return ... }
ConfigureAgentTokenFail ==
    /\ pc = "ConfigureAgentTokenFail"
    /\ DoClose("masterClient")
    /\ pc' = "ExecuteStepReturn"
    /\ UNCHANGED <<err, idx, agentIndex, touched, log, inst, svcFrame>>

ConfigureAgentConnectAgent ==
    /\ pc = "ConfigureAgentConnectAgent"
    /\ \E ok \in BOOLEAN :
         /\ DoConnect("agentClient", idx, ok)
         /\ IF ok THEN /\ pc' = "InstWhich" /\ err' = err
                       /\ inst' = [inst EXCEPT !.nodeName = AgentNodeName(agentIndex)]
                  ELSE /\ pc' = "ConfigureAgentAgentFail" /\ err' = "connect agent failed"
                       /\ inst' = inst
    /\ UNCHANGED <<idx, agentIndex, log, svcFrame>>

\* if err := agentClient.Connect(); err != nil { masterClient.Close(); return ... }
ConfigureAgentAgentFail ==
    /\ pc = "ConfigureAgentAgentFail"
    /\ DoClose("masterClient")
    /\ pc' = "ExecuteStepReturn"
    /\ UNCHANGED <<err, idx, agentIndex, touched, log, inst, svcFrame>>

\* err = s.installer.InstallAgent(...); masterClient.Close()
ConfigureAgentInstalled ==
    /\ pc = "ConfigureAgentInstalled"
    /\ DoClose("masterClient")
    /\ pc' = "ConfigureAgentReturn"
    /\ UNCHANGED <<err, idx, agentIndex, touched, log, inst, svcFrame>>

\* A loop that goes on after a failed agent.
AgentNeverFailed(e) == FALSE

\* if err := s.k3sService.ConfigureAgent(...); err != nil { return ... }
AgentFailed(e) == e # "nil"

\* ConfigureAgent returns (defer agentClient.Close()); back in
\* configureAgentStep: return the error, or agentIndex++ and the next node.
ConfigureAgentReturn ==
    /\ pc = "ConfigureAgentReturn"
    /\ DoClose("agentClient")
    /\ IF AgentFailed(err)
         THEN pc' = "ExecuteStepReturn" /\ idx' = idx /\ agentIndex' = agentIndex
         ELSE pc' = "configureAgentLoop" /\ idx' = idx + 1 /\ agentIndex' = agentIndex + 1
    /\ UNCHANGED <<err, touched, log, inst, svcFrame>>

\* A nil-pointer panic inside the installer unwinds the stack: the deferred
\* Close of the installing client runs, statements after the call do not.
PanicUnwind ==
    /\ pc = "panicking"
    /\ DoClose(inst.client)
    /\ pc' = "panicked"
    /\ UNCHANGED <<err, idx, agentIndex, touched, log, inst, svcFrame>>

(***************************************************************************)
(* Installer.InstallMaster / Installer.InstallAgent.                       *)
(***************************************************************************)
instFrame == <<req, resp, masterNode, idx, agentIndex, conn, open, touched,
               hostDf, pre, mgr, scriptVars, batchVars, extVars>>
\* Where the installer's caller goes on when InstallMaster / InstallAgent returns.
InstReturn == IF inst.target = "server" THEN "InstallMasterReturn"
              ELSE "ConfigureAgentInstalled"
InstFail(e) == err' = e /\ pc' = InstReturn
InstGo(p) == err' = err /\ pc' = p

\* An installer that never finds the binary.
NeverInstalled(r) == FALSE

\* if result, err := client.ExecuteCommand("which k3s"); err == nil && result.Stdout != ""
AlreadyInstalled(r) == ~IsErr(r) /\ r.out # ""

InstWhich ==
    /\ pc = "InstWhich"
    /\ Issue(inst.client, "which k3s")
    /\ \E r \in Rsp({"/usr/local/bin/k3s", ""}, {""}) :
         /\ IF AlreadyInstalled(r) THEN InstGo(InstReturn)
            ELSE IF inst.target = "server" THEN InstGo("InstProbeBaidu")
            ELSE InstGo("InstInternalIP")
         /\ inst' = [inst EXCEPT !.present = (r.kind = "ok" /\ r.out # "")]
    /\ UNCHANGED instFrame

\* strings.TrimSpace(result.Stdout) == "" or net.ParseIP(ip) == nil
InternalIPOutcome(out) ==
    IF out = "" THEN "no internal ip"
    ELSE IF out = "not an ip" THEN "invalid internal ip"
    ELSE "nil"

\* getInternalIP(masterClient): the nc / ip addr probe
InstInternalIP ==
    /\ pc = "InstInternalIP"
    /\ Issue("masterClient", "ip addr")
    /\ \E r \in Rsp({"10.0.0.1", "", "not an ip"}, {""}) :
         IF IsErr(r) THEN InstGo("InstInternalIPFallback") /\ inst' = inst
         ELSE IF InternalIPOutcome(r.out) # "nil"
                THEN InstFail(InternalIPOutcome(r.out)) /\ inst' = inst
         ELSE InstGo("InstProbeBaidu") /\ inst' = [inst EXCEPT !.masterIP = r.out]
    /\ UNCHANGED instFrame

\* the fallback: ip route get 8.8.8.8
InstInternalIPFallback ==
    /\ pc = "InstInternalIPFallback"
    /\ Issue("masterClient", "ip route get")
    /\ \E r \in Rsp({"10.0.0.1", "", "not an ip"}, {""}) :
         IF IsErr(r) THEN InstFail("internal ip command failed") /\ inst' = inst
         ELSE IF InternalIPOutcome(r.out) # "nil"
                THEN InstFail(InternalIPOutcome(r.out)) /\ inst' = inst
         ELSE InstGo("InstProbeBaidu") /\ inst' = [inst EXCEPT !.masterIP = r.out]
    /\ UNCHANGED instFrame

\* A probe that only looks at the exit status it was given.
ReachableUnlessExit(r) == r.kind # "exit"

\* isInternetReachable: err == nil && result.ExitCode == 0
Reachable(r) == ~IsErr(r)

\* getInstallURL / isInMainlandChina, first probe. inst.probes holds the
\* answers of the probes until executeInstall takes the URL returned.
InstProbeBaidu ==
    /\ pc = "InstProbeBaidu"
    /\ Issue(inst.client, "curl baidu")
    /\ \E r \in Plain :
         IF ~Reachable(r)
           THEN InstGo("InstOsRelease")
                /\ inst' = [inst EXCEPT !.installURL = officialCNInstallURL,
                                        !.probes = <<r.kind>>]
           ELSE InstGo("InstProbeGoogle") /\ inst' = [inst EXCEPT !.probes = <<r.kind>>]
    /\ UNCHANGED instFrame

InstProbeGoogle ==
    /\ pc = "InstProbeGoogle"
    /\ Issue(inst.client, "curl google")
    /\ \E r \in Plain :
         /\ InstGo("InstOsRelease")
         /\ inst' = [inst EXCEPT !.installURL = IF ~Reachable(r) THEN officialCNInstallURL
                                                ELSE officialInstallURL,
                                 !.probes = Append(@, r.kind)]
    /\ UNCHANGED instFrame

(***************************************************************************)
(* Installer.executeInstall.                                               *)
(***************************************************************************)
\* The release texts isDomesticOS may read: one with a domestic keyword, one
\* without, and the "not_found" the command echoes when the file is missing.
InstOsRelease ==
    /\ pc = "InstOsRelease"
    /\ Issue(inst.client, "cat /etc/os-release")
    /\ \E r \in Rsp({"kylin", "ubuntu", "not_found"}, {""}) :
         IF IsErr(r) \/ r.out = "not_found"
           THEN InstGo("InstAltPath") /\ inst' = [inst EXCEPT !.altPath = 1, !.probes = <<>>]
           ELSE InstGo("InstDownload")
                /\ inst' = [inst EXCEPT !.isDomestic = (r.out = "kylin"), !.probes = <<>>]
    /\ UNCHANGED instFrame

\* checkAlternativeOSDetection: for path, name := range domesticPaths (4 paths)
InstAltPath ==
    /\ pc = "InstAltPath"
    /\ Issue(inst.client, "test -f release file")
    /\ \E r \in Rsp({"found", "not_found"}, {""}) :
         IF ~IsErr(r) /\ r.out = "found"
           THEN InstGo("InstDownload")
                /\ inst' = [inst EXCEPT !.isDomestic = TRUE, !.altPath = 0]
         ELSE IF inst.altPath < 4
           THEN InstGo("InstAltPath") /\ inst' = [inst EXCEPT !.altPath = @ + 1]
         ELSE InstGo("InstUname") /\ inst' = [inst EXCEPT !.altPath = 0]
    /\ UNCHANGED instFrame

InstUname ==
    /\ pc = "InstUname"
    /\ Issue(inst.client, "uname -a")
    /\ \E r \in Rsp({"linux kylin", "linux"}, {""}) :
         /\ InstGo("InstDownload")
         /\ inst' = [inst EXCEPT !.isDomestic = (~IsErr(r) /\ r.out = "linux kylin")]
    /\ UNCHANGED instFrame

\* The script the mirror serves.
UpstreamScript == <<SetupEnvOpen, Other, Brace, CreateEnvOpen, Other, Brace>>

\* switch installURL { case officialInstallURL: ... case officialCNInstallURL: ... }
ModifiedFor(installURL, downloaded) ==
    IF installURL \in {officialInstallURL, officialCNInstallURL}
      THEN modifyScriptSelective(downloaded, InstallOptions(installURL))
      ELSE downloaded

\* http.Get(installURL), io.ReadAll, modifyScriptSelective
InstDownload ==
    /\ pc = "InstDownload"
    /\ \E got \in BOOLEAN :
         IF ~got THEN InstFail("script download failed") /\ inst' = inst
         ELSE /\ InstGo("InstUpload")
              /\ inst' = [inst EXCEPT !.script = ModifiedFor(inst.installURL, UpstreamScript)]
    /\ UNCHANGED <<log, instFrame>>

\* isAgentMode: some env of envArgs contains "K3S_URL="
BaseEnv(target) == IF target = "agent" THEN <<"K3S_URL", "K3S_TOKEN", "K3S_NODE_NAME">>
                   ELSE <<"K3S_NODE_NAME">>
\* A mode test that takes every target for a server.
NeverAgentMode(envArgs) == FALSE

isAgentMode(envArgs) == \E k \in 1..Len(envArgs) : envArgs[k] = "K3S_URL"

\* client.UploadFile(modifiedScript, "/tmp/k3s-install-modified.sh")
InstUpload ==
    /\ pc = "InstUpload"
    /\ Issue(inst.client, "upload install script")
    /\ \E r \in Plain :
         IF IsErr(r) THEN InstFail("script upload failed")
         ELSE IF ~isAgentMode(BaseEnv(inst.target)) THEN InstGo("CaDir")
         ELSE InstGo("InstChmodScript")
    /\ inst' = [inst EXCEPT !.env = BaseEnv(inst.target), !.caStep = 1]
    /\ UNCHANGED instFrame

(***************************************************************************)
(* Installer.generateCustomCACerts (server target only).                   *)
(***************************************************************************)
caDirSteps == 4    \* mkdir certDir, mkdir etcdCertDir, chmod 755 of each
caPairs == 8       \* five CA pairs, then three leaf pairs

\* An installer that returns the PKI error.
AbortOnCaFailure(e, curErr) ==
    IF e # "nil" THEN [pc |-> "InstallMasterReturn", err |-> e]
    ELSE [pc |-> "InstChmodScript", err |-> curErr]

\* if err := i.generateCustomCACerts(client); err != nil { i.logger.Warnf(...) }
\* Where executeInstall goes on, and with which error, when the PKI step ended
\* with e.
AfterCa(e, curErr) == [pc |-> "InstChmodScript", err |-> curErr]

CaEnd(e) ==
    /\ pc' = AfterCa(e, err).pc
    /\ err' = AfterCa(e, err).err

CaDir ==
    /\ pc = "CaDir"
    /\ Issue(inst.client, "prepare cert dir")
    /\ \E r \in Plain :
         IF IsErr(r) THEN CaEnd("cert dir failed")
                          /\ inst' = [inst EXCEPT !.caErr = "cert dir failed", !.caStep = 0]
         ELSE IF inst.caStep < caDirSteps
                THEN InstGo("CaDir") /\ inst' = [inst EXCEPT !.caStep = @ + 1]
         ELSE InstGo("CaGenerate") /\ inst' = [inst EXCEPT !.caPair = 1, !.caStep = 0]
    /\ UNCHANGED instFrame

\* generateCA / generateClientCert: local key and certificate generation
CaGenerate ==
    /\ pc = "CaGenerate"
    /\ \E made \in BOOLEAN :
         IF made THEN InstGo("CaUploadCert") /\ inst' = inst
         ELSE CaEnd("generation failed") /\ inst' = [inst EXCEPT !.caErr = "generation failed", !.caPair = 0]
    /\ UNCHANGED <<log, instFrame>>

\* saveCertificateAndKey: upload certificate, upload key, chmod 644, chmod 600
CaUploadCert ==
    /\ pc = "CaUploadCert"
    /\ Issue(inst.client, "upload certificate")
    /\ \E r \in Plain :
         IF IsErr(r) THEN CaEnd("cert upload failed") /\ inst' = [inst EXCEPT !.caErr = "cert upload failed", !.caPair = 0]
         ELSE /\ InstGo("CaUploadKey")
              /\ inst' = [inst EXCEPT !.files = @ \cup {<<inst.caPair, "crt", "as uploaded">>}]
    /\ UNCHANGED instFrame

CaUploadKey ==
    /\ pc = "CaUploadKey"
    /\ Issue(inst.client, "upload private key")
    /\ \E r \in Plain :
         IF IsErr(r) THEN CaEnd("key upload failed") /\ inst' = [inst EXCEPT !.caErr = "key upload failed", !.caPair = 0]
         ELSE /\ InstGo("CaChmodCert")
              /\ inst' = [inst EXCEPT !.files = @ \cup {<<inst.caPair, "key", "as uploaded">>}]
    /\ UNCHANGED instFrame

CaChmodCert ==
    /\ pc = "CaChmodCert"
    /\ Issue(inst.client, "chmod 644 certificate")
    /\ \E r \in Plain :
         IF IsErr(r) THEN CaEnd("cert chmod failed") /\ inst' = [inst EXCEPT !.caErr = "cert chmod failed", !.caPair = 0]
         ELSE /\ InstGo("CaChmodKey")
              /\ inst' = [inst EXCEPT !.files = (@ \ {<<inst.caPair, "crt", "as uploaded">>})
                                                   \cup {<<inst.caPair, "crt", "644">>}]
    /\ UNCHANGED instFrame

CaChmodKey ==
    /\ pc = "CaChmodKey"
    /\ Issue(inst.client, "chmod 600 private key")
    /\ \E r \in Plain :
         IF IsErr(r) THEN CaEnd("key chmod failed") /\ inst' = [inst EXCEPT !.caErr = "key chmod failed", !.caPair = 0]
         ELSE LET saved == (inst.files \ {<<inst.caPair, "key", "as uploaded">>})
                               \cup {<<inst.caPair, "key", "600">>} IN
              IF inst.caPair < caPairs
                THEN InstGo("CaGenerate")
                     /\ inst' = [inst EXCEPT !.files = saved, !.caPair = @ + 1]
                ELSE CaEnd("nil")
                     /\ inst' = [inst EXCEPT !.files = saved, !.caErr = "nil", !.caPair = 0]
    /\ UNCHANGED instFrame

(***************************************************************************)
(* executeInstall, from chmod +x to the end.                               *)
(***************************************************************************)
InstChmodScript ==
    /\ pc = "InstChmodScript"
    /\ Issue(inst.client, "chmod +x install script")
    /\ \E r \in Plain :
         IF IsErr(r) THEN InstFail("script chmod failed") ELSE InstGo("InstExec")
    /\ UNCHANGED <<inst, instFrame>>

FinalEnv(envArgs, domestic, installURL) ==
    envArgs
      \o (IF domestic THEN <<"INSTALL_K3S_SELINUX_WARN", "INSTALL_K3S_SKIP_SELINUX_RPM">>
          ELSE <<>>)
      \o (IF installURL = officialCNInstallURL
            THEN <<"INSTALL_K3S_MIRROR", "INSTALL_K3S_REGISTRIES">> ELSE <<>>)

\* Mirror arguments appended whatever the mode.
ArgsForEveryTarget(envArgs, domestic, installURL) ==
    IF installURL = officialCNInstallURL
      THEN <<"--system-default-registry", "--disable-default-registry-endpoint">>
      ELSE <<>>

FinalArgs(envArgs, domestic, installURL) ==
    IF installURL = officialCNInstallURL
         /\ ~isAgentMode(FinalEnv(envArgs, domestic, installURL))
      THEN <<"--system-default-registry", "--disable-default-registry-endpoint">>
      ELSE <<>>

\* The environment part of cmd, each assignment as <<name, value>>; the
\* values that differ between installations come from the installation i.
EnvValue(name, i) ==
    CASE name = "K3S_TOKEN" -> i.token
      [] name = "K3S_URL" -> i.masterIP
      [] name = "K3S_NODE_NAME" -> i.nodeName
      [] OTHER -> "fixed"
\* i.logger.Infof("执行命令: %s", cmd): the logger is given cmd as it is run.
CommandLogged(envArgs, i) == [k \in 1..Len(envArgs) |-> <<envArgs[k], EnvValue(envArgs[k], i)>>]

\* cd /tmp && <env> bash <script> <args> > /tmp/k3s-install.log 2>&1
InstExec ==
    /\ pc = "InstExec"
    /\ Issue(inst.client, "run install script")
    /\ \E r \in Plain : IF IsErr(r) THEN InstGo("InstCatLogFailed") ELSE InstGo("InstCatLog")
    /\ inst' = [inst EXCEPT !.executed = TRUE,
                            !.env = FinalEnv(inst.env, inst.isDomestic, inst.installURL),
                            !.args = FinalArgs(inst.env, inst.isDomestic, inst.installURL),
                            !.logged = CommandLogged(
                                FinalEnv(inst.env, inst.isDomestic, inst.installURL), inst)]
    /\ UNCHANGED instFrame

InstCatLogFailed ==
    /\ pc = "InstCatLogFailed"
    /\ Issue(inst.client, "cat install log")
    /\ \E r \in Plain : InstFail("install script failed")
    /\ UNCHANGED <<inst, instFrame>>

InstCatLog ==
    /\ pc = "InstCatLog"
    /\ Issue(inst.client, "cat install log")
    /\ \E r \in Plain : InstGo("VerifyPoll")
    /\ inst' = [inst EXCEPT !.attempt = 0]
    /\ UNCHANGED instFrame

(***************************************************************************)
(* verifyMasterInstallation / verifyAgentInstallation.                     *)
(***************************************************************************)
\* What `systemctl is-active` answers: "active" with exit status 0, the other
\* states with a non-zero exit status.
IsActiveAnswers == Rsp({"active"}, {"inactive", "activating", "failed"})
\* strings.Contains(result.Stdout, "active")
ContainsActive(out) == out \in {"active", "inactive", "activating"}
\* strings.Contains(result.Stdout, "Ready")
ContainsReady(out) == out \in {"Ready", "NotReady"}

\* A poll loop without an attempt budget.
AlwaysMoreAttempts(attempt) == TRUE

\* attempt < 18, the condition of the poll loop
MoreAttempts(attempt) == attempt < verifyAttempts

\* for attempt := 0; attempt < 18; attempt++ { ... break / Warnf(result.Stdout); Sleep }
\* inst.attempt is the loop variable: the number of polls answered "not active".
VerifyPoll ==
    /\ pc = "VerifyPoll"
    /\ MoreAttempts(inst.attempt)
    /\ Issue(inst.client, "systemctl is-active")
    /\ \E r \in IsActiveAnswers :
         IF ~IsErr(r) /\ ContainsActive(r.out)
           THEN InstGo("VerifyFinal") /\ inst' = inst
         ELSE IF r.kind = "transport"
           THEN pc' = "panicking" /\ err' = err /\ inst' = [inst EXCEPT !.attempt = 0]
         ELSE /\ InstGo(IF MoreAttempts(inst.attempt + 1) THEN "VerifyPoll" ELSE "VerifyFinal")
              /\ inst' = [inst EXCEPT !.attempt = @ + 1]
    /\ UNCHANGED instFrame

\* result, err := client.ExecuteCommand("systemctl is-active ...") after the loop
VerifyFinal ==
    /\ pc = "VerifyFinal"
    /\ Issue(inst.client, "systemctl is-active")
    /\ \E r \in IsActiveAnswers :
         IF IsErr(r) \/ ~ContainsActive(r.out)
           THEN InstGo("VerifyJournal")
                /\ inst' = [inst EXCEPT !.attempt = 0, !.lastNil = (r.kind = "transport")]
         ELSE /\ InstGo(IF inst.target = "server" THEN "VerifyKubectl" ELSE InstReturn)
              /\ inst' = [inst EXCEPT !.attempt = 0]
    /\ UNCHANGED instFrame

\* journalctl -n 50, then Errorf(..., err, result.Stderr)
VerifyJournal ==
    /\ pc = "VerifyJournal"
    /\ Issue(inst.client, "journalctl")
    /\ \E r \in Plain :
         IF inst.lastNil THEN pc' = "panicking" /\ err' = err
         ELSE InstFail("service not running")
    /\ UNCHANGED <<inst, instFrame>>

\* kubectl get nodes; inst.listing is the node status the listing showed.
VerifyKubectl ==
    /\ pc = "VerifyKubectl"
    /\ Issue(inst.client, "kubectl get nodes")
    /\ \E r \in Rsp({"Ready", "NotReady", "No resources found"}, {""}) :
         /\ IF IsErr(r) THEN InstFail("kubectl failed")
            ELSE IF ~ContainsReady(r.out) THEN InstFail("master not ready")
            ELSE InstGo(InstReturn)
         /\ inst' = [inst EXCEPT !.listing = IF IsErr(r) THEN "none" ELSE r.out]
    /\ UNCHANGED instFrame

(***************************************************************************)
(* K3sService.ApplyLabels / DeployInSuite / VerifyDeployment and the       *)
(* cluster application Manager they call with the master session.          *)
(***************************************************************************)
NoMgr == [pending |-> {}, m |-> 0, d |-> 0, i |-> 0, polls |-> 0, v |-> 0, uploaded |-> {},
          pods |-> <<>>]
manifestCount == 4       \* namespace, database, middleware, application
deploymentCount == 3     \* insuite-database, insuite-middleware, insuite-app
verifyCommands == 5

mgrFrame == <<req, resp, masterNode, idx, agentIndex, conn, open, touched,
              hostDf, pre, inst, scriptVars, batchVars, extVars>>
MgrFail(e) == err' = e /\ pc' = "MgrReturn"
MgrGo(p) == err' = err /\ pc' = p

MgrConnect(entry, first) ==
    /\ pc = entry
    /\ \E ok \in BOOLEAN :
         /\ DoConnect("client", masterNode, ok)
         /\ IF ok THEN pc' = first /\ err' = err
                  ELSE pc' = "ExecuteStepReturn" /\ err' = "connect master failed"
    /\ log' = {}
    /\ UNCHANGED <<idx, agentIndex, inst, req, resp, masterNode, hostDf, pre,
                   scriptVars, batchVars, extVars>>

\* defer client.Close()
MgrReturn ==
    /\ pc = "MgrReturn"
    /\ DoClose("client")
    /\ pc' = "ExecuteStepReturn"
    /\ UNCHANGED <<err, idx, agentIndex, touched, log, inst, svcFrame>>

ApplyLabels ==
    /\ MgrConnect("ApplyLabels", IF req.Labels = {} THEN "ShowLabels" ELSE "ApplyNodeLabels")
    /\ mgr' = [NoMgr EXCEPT !.pending = req.Labels]

\* for nodeName, nodeLabels := range labels: kubectl label nodes ... --overwrite
ApplyNodeLabels ==
    /\ pc = "ApplyNodeLabels"
    /\ \E p \in mgr.pending :
         /\ Issue("client", "kubectl label")
         /\ \E r \in Plain :
              IF IsErr(r) THEN MgrFail("label failed") /\ mgr' = mgr
              ELSE /\ MgrGo(IF mgr.pending = {p} THEN "ShowLabels" ELSE "ApplyNodeLabels")
                   /\ mgr' = [mgr EXCEPT !.pending = @ \ {p}]
    /\ UNCHANGED mgrFrame

ShowLabels ==
    /\ pc = "ShowLabels"
    /\ Issue("client", "kubectl get nodes --show-labels")
    /\ \E r \in Plain :
         IF IsErr(r) THEN MgrFail("show labels failed")
         ELSE err' = "nil" /\ pc' = "MgrReturn"
    /\ UNCHANGED <<mgr, mgrFrame>>

DeployInSuite ==
    /\ MgrConnect("DeployInSuite", "MgrUpload")
    /\ mgr' = [NoMgr EXCEPT !.m = 1]

\* The tiers of the application and the role assignments a request may carry
\* (tier -> node name).
Tiers == <<"database", "middleware", "app">>
AllOnMaster == [t \in {"database", "middleware", "app"} |-> masterRoleName]
RoleAssignments ==
    {AllOnMaster, [AllOnMaster EXCEPT !["database"] = agentBaseName],
     [AllOnMaster EXCEPT !["app"] = agentBaseName]}

\* nodeSelector of the tier's Deployment: `insuite.<tier>: "true"`, written in
\* the manifest text itself; fmt.Sprintf is given no argument.
nodeSelector(tier, roleAssignment) == [label |-> <<"insuite", tier>>, value |-> "true"]

\* The m-th manifest: the namespace, then one Deployment per tier.
ManifestOf(m, roleAssignment) ==
    IF m = 1 THEN [name |-> <<"insuite", "namespace">>, tier |-> "none", nodeSelector |-> <<>>]
    ELSE [name |-> <<"insuite", Tiers[m - 1]>>, tier |-> Tiers[m - 1],
          nodeSelector |-> <<nodeSelector(Tiers[m - 1], roleAssignment)>>]

\* createNamespace and deployAppComponents: UploadFile, then kubectl apply -f
MgrUpload ==
    /\ pc = "MgrUpload"
    /\ Issue("client", "upload manifest")
    /\ \E r \in Plain :
         IF IsErr(r) THEN MgrFail("manifest upload failed") /\ mgr' = mgr
         ELSE /\ MgrGo("MgrApply")
              /\ mgr' = [mgr EXCEPT !.uploaded = @ \cup {ManifestOf(mgr.m, req.RoleAssignment)}]
    /\ UNCHANGED mgrFrame

MgrApply ==
    /\ pc = "MgrApply"
    /\ Issue("client", "kubectl apply")
    /\ \E r \in Plain :
         IF IsErr(r) THEN MgrFail("apply failed") /\ mgr' = mgr
         ELSE IF mgr.m < manifestCount
           THEN MgrGo("MgrUpload") /\ mgr' = [mgr EXCEPT !.m = @ + 1]
         ELSE MgrGo("WaitForDeployment") /\ mgr' = [mgr EXCEPT !.d = 1, !.i = 0]
    /\ UNCHANGED mgrFrame

\* for i := 0; i < 30; i++ { readyReplicas == "1" -> break; i == 29 -> error; Sleep }
WaitForDeployment ==
    /\ pc = "WaitForDeployment"
    /\ mgr.i < deployPolls
    /\ Issue("client", "kubectl get deployment")
    /\ \E r \in Rsp({"1", ""}, {""}) :
         IF ~IsErr(r) /\ r.out = "1"
           THEN IF mgr.d < deploymentCount
                  THEN MgrGo("WaitForDeployment")
                       /\ mgr' = [mgr EXCEPT !.d = @ + 1, !.i = 0, !.polls = mgr.i + 1]
                  ELSE err' = "nil" /\ pc' = "MgrReturn"
                       /\ mgr' = [mgr EXCEPT !.polls = mgr.i + 1]
         ELSE IF mgr.i = deployPolls - 1
           THEN MgrFail("deployment timed out") /\ mgr' = [mgr EXCEPT !.polls = mgr.i + 1]
         ELSE MgrGo("WaitForDeployment") /\ mgr' = [mgr EXCEPT !.i = @ + 1, !.polls = mgr.i + 1]
    /\ UNCHANGED mgrFrame

VerifyDeployment ==
    /\ MgrConnect("VerifyDeployment", "VerifyCmd")
    /\ mgr' = [NoMgr EXCEPT !.v = 1]

\* The pods of the application namespace: per tier no pod at all, a pod in
\* the Running phase, or a pod in another phase.
PodPhases == {"none", "Running", "Pending"}
Clusters == [1..Len(Tiers) -> PodPhases]
\* kubectl get pods -n insuite --field-selector=status.phase!=Running --no-headers:
\* the rows of the pods not Running; nothing on stdout when there is none.
NotRunningRows(pods) == IF \E t \in DOMAIN pods : pods[t] = "Pending" THEN "rows" ELSE ""

\* get nodes, get pods, get services, pods not Running, node port; mgr.pods
\* is the namespace as it was when the fourth command was answered.
VerifyCmd ==
    /\ pc = "VerifyCmd"
    /\ Issue("client", "kubectl get")
    /\ \E r \in Rsp({"", "rows"}, {""}), pods \in Clusters \cup {<<>>} :
         /\ (mgr.v = 4 /\ ~IsErr(r)) <=> pods # <<>>
         /\ pods # <<>> => r.out = NotRunningRows(pods)
         /\ IF mgr.v < verifyCommands
              THEN IF IsErr(r) THEN MgrFail("kubectl get failed") /\ mgr' = mgr
                   ELSE IF mgr.v = 4 /\ r.out # ""
                     THEN MgrFail("pods not running") /\ mgr' = [mgr EXCEPT !.pods = pods]
                   ELSE /\ MgrGo("VerifyCmd")
                        /\ mgr' = [mgr EXCEPT !.v = @ + 1,
                                              !.pods = IF pods # <<>> THEN pods ELSE @]
              ELSE err' = "nil" /\ pc' = "MgrReturn" /\ mgr' = mgr
    /\ UNCHANGED mgrFrame

(***************************************************************************)
(* Batch connectivity test: SSHBatchTestHandler / BatchTestConnection.     *)
(* The handler starts one worker goroutine per node, passing it the        *)
(* node's position and a copy of the node, and waits for all of them.      *)
(***************************************************************************)
NodeIds == {"n1", "n2", "n3"}
EmptySlot == [ID |-> "", Success |-> FALSE, filled |-> FALSE]
Workers == 1..Len(bnodes)

\* Every worker writing the first slot.
FirstSlot(index) == 1

\* results[index] = result: the slot a worker writes
ResultSlot(index) == index

\* for i, node := range req.Nodes { wg.Add(1); go func(index, n) {...}(i, node) }
BatchSpawn ==
    /\ bpc.at = "spawn"
    /\ bpc.i <= Len(bnodes)
    /\ wpc' = [wpc EXCEPT ![bpc.i] = [at |-> "test", ok |-> FALSE]]
    /\ bpc' = [bpc EXCEPT !.i = @ + 1]
    /\ UNCHANGED <<bnodes, results, writes, deployVars, scriptVars, extVars>>

BatchSpawned ==
    /\ bpc.at = "spawn"
    /\ bpc.i > Len(bnodes)
    /\ bpc' = [bpc EXCEPT !.at = "wait"]
    /\ UNCHANGED <<bnodes, wpc, results, writes, deployVars, scriptVars, extVars>>

\* result := s.TestConnection(testReq)
WorkerTest ==
    \E w \in Workers, ok \in BOOLEAN :
        /\ wpc[w].at = "test"
        /\ wpc' = [wpc EXCEPT ![w] = [at |-> "write", ok |-> ok]]
        /\ UNCHANGED <<bnodes, bpc, results, writes, deployVars, scriptVars, extVars>>

\* result.ID = n.ID; results[index] = result; wg.Done()
WorkerWrite ==
    \E w \in Workers :
        /\ wpc[w].at = "write"
        /\ results' = [results EXCEPT ![ResultSlot(w)] =
                          [ID |-> bnodes[w], Success |-> wpc[w].ok, filled |-> TRUE]]
        /\ writes' = Append(writes, <<w, ResultSlot(w)>>)
        /\ wpc' = [wpc EXCEPT ![w].at = "done"]
        /\ UNCHANGED <<bnodes, bpc, deployVars, scriptVars, extVars>>

\* wg.Wait(); return results
BatchJoin ==
    /\ bpc.at = "wait"
    /\ \A w \in Workers : wpc[w].at = "done"
    /\ bpc' = [bpc EXCEPT !.at = "joined"]
    /\ UNCHANGED <<bnodes, wpc, results, writes, deployVars, scriptVars, extVars>>

(***************************************************************************)
(* ssh.Client: Connect, ExecuteCommand, Close on one Client value.         *)
(***************************************************************************)
\* What session.Run can end with: the remote command exited with a status
\* (nil for 0, *ssh.ExitError otherwise), or the run ended without one (the
\* connection was lost, no exit status arrived); or no session could be made.
Exited(n) == [kind |-> "exited", code |-> n]
Lost == [kind |-> "lost", code |-> 0]
NoSession == [kind |-> "no session", code |-> 0]
NotReached == [kind |-> "not reached", code |-> 0]
RunOutcomes(connState) ==
    IF connState = "nil" THEN {NotReached}
    ELSE IF connState = "closed" THEN {NoSession}
    ELSE {Exited(n) : n \in 0..MaxExitCode} \cup {Lost, NoSession}

\* The (result, err) pair ExecuteCommand returns. Every error is built by
\* fmt.Errorf with %v: one dynamic type, no wrapped cause; msg is the format
\* used and detail the text of the cause printed into it.
Returned(has, code, type, msg, detail) ==
    [hasResult |-> has, ExitCode |-> code, errType |-> type, msg |-> msg, detail |-> detail]

\* result.ExitCode = 1 when session.Run's error is no *ssh.ExitError
ExitCodeWithoutStatus == 1

ExecuteCommand(connState, run) ==
    IF connState = "nil"
      THEN Returned(FALSE, 0, "errorString", "not connected", "")
    ELSE IF run.kind = "no session"
      THEN Returned(FALSE, 0, "errorString", "session failed", "no session")
    ELSE IF run.kind = "exited" /\ run.code = 0
      THEN Returned(TRUE, 0, "nil", "", "")
    ELSE IF run.kind = "exited"
      THEN Returned(TRUE, run.code, "errorString", "command failed", "exit status")
    ELSE Returned(TRUE, ExitCodeWithoutStatus, "errorString", "command failed", "lost")

ClientIdle == clientConn = "nil" /\ calls = <<>>

\* conn, err := ssh.Dial(...); c.conn = conn only when the dial succeeded
ClientConnect ==
    /\ clientConn = "nil"
    /\ \E ok \in BOOLEAN : clientConn' = IF ok THEN "open" ELSE "nil"
    /\ UNCHANGED <<calls, deployVars, scriptVars, batchVars, handlerVars, raceVars, webVars>>

ClientExecuteCommand ==
    /\ Len(calls) < MaxCalls
    /\ \E run \in RunOutcomes(clientConn) :
         calls' = Append(calls, [conn |-> clientConn, run |-> run,
                                 ret |-> ExecuteCommand(clientConn, run)])
    /\ UNCHANGED <<clientConn, deployVars, scriptVars, batchVars, handlerVars, raceVars, webVars>>

\* c.conn.Close(): the conn stays set, every later NewSession fails
ClientClose ==
    /\ clientConn = "open"
    /\ clientConn' = "closed"
    /\ UNCHANGED <<calls, deployVars, scriptVars, batchVars, handlerVars, raceVars, webVars>>

(***************************************************************************)
(* HTTP handlers sharing the package-level maps nodesMap (guarded by       *)
(* nodesMu) and taskProgress (guarded by taskMu).  Each concurrent request *)
(* runs the instructions of its handler in source order; the scheduler     *)
(* interleaves the requests between instructions.                          *)
(***************************************************************************)
Requesters == 1..MaxRequests
HandlerKinds == {"SSHTestHandler", "SSHBatchTestHandler", "WebSSHHandler",
                 "K3sDeployHandler", "K3sProgressHandler"}
taskSteps == 5

\* One instruction: what it does, on which map (or that map's mutex), and
\* where a failed action or a finished loop continues (0: the next one).
Ins(do, on) == [do |-> do, on |-> on, to |-> 0]
InsTo(do, on, to) == [do |-> do, on |-> on, to |-> to]

\* SSHTestHandler: the ID and the Name are computed from len(nodesMap) with
\* no lock taken, the connection is tested, and on success SaveNode runs.
SSHTestHandler ==
    << Ins("len", "nodesMap"), Ins("len", "nodesMap"),
       InsTo("act", "", 7),
       Ins("lock", "nodesMap"), Ins("write", "nodesMap"), Ins("unlock", "nodesMap") >>

\* One worker goroutine of SSHBatchTestHandler: test, then SaveNode.
SSHBatchTestHandler ==
    << InsTo("act", "", 5),
       Ins("lock", "nodesMap"), Ins("write", "nodesMap"), Ins("unlock", "nodesMap") >>

\* WebSSHHandler: the lookup of the node by id.
WebSSHHandler ==
    << Ins("lock", "nodesMap"), Ins("read", "nodesMap"), Ins("unlock", "nodesMap") >>

\* K3sDeployHandler and its goroutine: the initial entry, then per step a
\* locked update, the action, a locked update with the outcome; after the
\* last step the locked final update.
K3sDeployHandler ==
    << Ins("lock", "taskProgress"), Ins("write", "taskProgress"), Ins("unlock", "taskProgress"),
       Ins("lock", "taskProgress"), Ins("read", "taskProgress"),
       Ins("write", "taskProgress"), Ins("unlock", "taskProgress"),
       Ins("act", ""),
       Ins("lock", "taskProgress"), Ins("read", "taskProgress"),
       Ins("write", "taskProgress"), Ins("unlock", "taskProgress"),
       InsTo("loop", "", 4),
       Ins("lock", "taskProgress"), Ins("read", "taskProgress"),
       Ins("write", "taskProgress"), Ins("unlock", "taskProgress") >>

\* K3sProgressHandler: the lookup of the task by id.
K3sProgressHandler ==
    << Ins("lock", "taskProgress"), Ins("read", "taskProgress"), Ins("unlock", "taskProgress") >>

ProgramOf(kind) ==
    CASE kind = "SSHTestHandler"      -> SSHTestHandler
      [] kind = "SSHBatchTestHandler" -> SSHBatchTestHandler
      [] kind = "WebSSHHandler"       -> WebSSHHandler
      [] kind = "K3sDeployHandler"    -> K3sDeployHandler
      [] kind = "K3sProgressHandler"  -> K3sProgressHandler

Finished(t) == hpc[t] > Len(ProgramOf(hkind[t]))
Current(t) == ProgramOf(hkind[t])[hpc[t]]
At(t, do) == ~Finished(t) /\ Current(t).do = do

\* The locals of a request: the ID it saves or asks for, the index of the
\* deployment step, and whether its last action failed.
NoLocals == [id |-> 0, i |-> 0, failed |-> FALSE]

HandlersIdle ==
    /\ hkind = <<>> /\ hpc = <<>> /\ hloc = <<>>
    /\ nodesMap = {} /\ taskProgress = <<>>
    /\ mu = <<>> /\ accesses = {}

\* mutex.Lock(): blocks while the mutex is held.
HandlerLock ==
    \E t \in Requesters :
        /\ At(t, "lock")
        /\ mu[Current(t).on] = 0
        /\ mu' = [mu EXCEPT ![Current(t).on] = t]
        /\ hpc' = [hpc EXCEPT ![t] = @ + 1]
        /\ UNCHANGED <<hkind, hloc, nodesMap, taskProgress, accesses>>
        /\ UNCHANGED <<sshVars, raceVars, webVars, deployVars, scriptVars, batchVars>>

\* mutex.Unlock().
HandlerUnlock ==
    \E t \in Requesters :
        /\ At(t, "unlock")
        /\ mu' = [mu EXCEPT ![Current(t).on] = 0]
        /\ hpc' = [hpc EXCEPT ![t] = @ + 1]
        /\ UNCHANGED <<hkind, hloc, nodesMap, taskProgress, accesses>>
        /\ UNCHANGED <<sshVars, raceVars, webVars, deployVars, scriptVars, batchVars>>

\* The access made by request t, with whether t holds the map's mutex.
Access(t) ==
    [by |-> hkind[t], on |-> Current(t).on, do |-> Current(t).do,
     locked |-> mu[Current(t).on] = t]

\* A write in progress by another request: a read with no lock taken races
\* with it.
WriterAtWork(t) ==
    \E w \in Requesters \ {t} : At(w, "write") /\ Current(w).on = "nodesMap"

\* len(nodesMap) as an unlocked read can return it: the count of the map,
\* or, racing with a write that adds a key, the count after that write.
LenRead(t) ==
    {Cardinality(nodesMap)} \cup
    (IF WriterAtWork(t) /\ Cardinality(nodesMap) < MaxRequests
        THEN {Cardinality(nodesMap) + 1} ELSE {})

\* The status a write of the deployment goroutine stores.
StatusWritten(t) ==
    IF hloc[t].failed THEN "error"
    ELSE IF hpc[t] = Len(K3sDeployHandler) - 1 THEN "success"
    ELSE "deploying"

\* A read, a write or a len of one of the two maps.
HandlerAccess ==
    \E t \in Requesters :
        /\ ~Finished(t)
        /\ Current(t).do \in {"read", "write", "len"}
        /\ accesses' = accesses \cup {Access(t)}
        /\ hpc' = [hpc EXCEPT ![t] = @ + 1]
        /\ IF Current(t).do = "len"
              THEN /\ \E n \in LenRead(t) : hloc' = [hloc EXCEPT ![t].id = n + 1]
                   /\ UNCHANGED <<nodesMap, taskProgress>>
           ELSE IF Current(t).do = "write" /\ Current(t).on = "nodesMap"
              THEN /\ nodesMap' = nodesMap \cup {hloc[t].id}
                   /\ UNCHANGED <<hloc, taskProgress>>
           ELSE IF Current(t).do = "write"
              THEN /\ taskProgress' = [taskProgress EXCEPT ![t] = StatusWritten(t)]
                   /\ UNCHANGED <<hloc, nodesMap>>
           ELSE UNCHANGED <<hloc, nodesMap, taskProgress>>
        /\ UNCHANGED <<hkind, mu>>
        /\ UNCHANGED <<sshVars, raceVars, webVars, deployVars, scriptVars, batchVars>>

\* TestConnection or a deployment step's action: it succeeds or fails; a
\* failed test skips SaveNode.
HandlerAct ==
    \E t \in Requesters, failed \in BOOLEAN :
        /\ At(t, "act")
        /\ hloc' = [hloc EXCEPT ![t].failed = failed]
        /\ hpc' = [hpc EXCEPT ![t] =
                      IF failed /\ Current(t).to # 0 THEN Current(t).to ELSE @ + 1]
        /\ UNCHANGED <<hkind, nodesMap, taskProgress, mu, accesses>>
        /\ UNCHANGED <<sshVars, raceVars, webVars, deployVars, scriptVars, batchVars>>

\* The end of one iteration over the deployment steps: return after a
\* failed step, go on with the next step, or leave the loop.
HandlerLoop ==
    \E t \in Requesters :
        /\ At(t, "loop")
        /\ IF hloc[t].failed
              THEN /\ hpc' = [hpc EXCEPT ![t] = Len(ProgramOf(hkind[t])) + 1]
                   /\ UNCHANGED hloc
           ELSE IF hloc[t].i + 1 < taskSteps
              THEN /\ hpc' = [hpc EXCEPT ![t] = Current(t).to]
                   /\ hloc' = [hloc EXCEPT ![t].i = @ + 1]
           ELSE /\ hpc' = [hpc EXCEPT ![t] = @ + 1]
                /\ UNCHANGED hloc
        /\ UNCHANGED <<hkind, nodesMap, taskProgress, mu, accesses>>
        /\ UNCHANGED <<sshVars, raceVars, webVars, deployVars, scriptVars, batchVars>>

(***************************************************************************)
(* Concurrent install-master invocations for one master node.  Each Deploy *)
(* request runs ExecuteStep on its own goroutine with its own session; the *)
(* invocations share nothing but the node.  One action per remote          *)
(* operation of InstallMaster / executeInstall that reads or writes what   *)
(* another invocation reads or writes on the node.                         *)
(***************************************************************************)
Invocations == 1..MaxInvocations
InstallsIdle ==
    /\ ipc = <<>> /\ host = [binary |-> FALSE, scriptBy |-> 0, pkiBy |-> 0]
    /\ ran = {} /\ clobbered = {}
TerminalsIdle == term = <<>> /\ sshSessions = <<>> /\ sshMu = 0
TaskIdle == task = <<>>
WebIdle == TerminalsIdle /\ TaskIdle
ExtIdle == ClientIdle /\ HandlersIdle /\ InstallsIdle /\ WebIdle

raceFrame == <<sshVars, handlerVars, webVars, deployVars, scriptVars, batchVars>>

\* The invocation has staged its script and has not finished executing it.
Installing(u) == ipc[u] \in {"CaGenerate", "InstChmodScript", "InstExec", "running"}
\* The invocation has written its PKI files and has not finished installing.
PkiInUse(u) == host.pkiBy = u /\ ipc[u] \in {"InstChmodScript", "InstExec", "running"}

\* InstallMaster: which k3s, answered from what is on the node now.
InvWhich ==
    \E t \in Invocations :
        /\ ipc[t] = "InstWhich"
        /\ \E r \in Rsp({IF host.binary THEN "/usr/local/bin/k3s" ELSE ""}, {""}) :
              ipc' = [ipc EXCEPT ![t] = IF AlreadyInstalled(r) THEN "done" ELSE "InstUpload"]
        /\ UNCHANGED <<host, ran, clobbered, raceFrame>>

\* client.UploadFile(modifiedScript, "/tmp/k3s-install-modified.sh"): the
\* same path for every invocation.
InvUpload ==
    \E t \in Invocations :
        /\ ipc[t] = "InstUpload"
        /\ \E r \in Plain :
              IF IsErr(r)
                THEN ipc' = [ipc EXCEPT ![t] = "done"] /\ UNCHANGED <<host, clobbered>>
                ELSE /\ ipc' = [ipc EXCEPT ![t] = "CaGenerate"]
                     /\ host' = [host EXCEPT !.scriptBy = t]
                     /\ clobbered' = clobbered \cup {u \in Invocations \ {t} : Installing(u)}
        /\ UNCHANGED <<ran, raceFrame>>

\* generateCustomCACerts: fresh keys and certificates written to the same
\* paths under /var/lib/rancher/k3s/server/tls; an error is only logged.
InvCa ==
    \E t \in Invocations :
        /\ ipc[t] = "CaGenerate"
        /\ ipc' = [ipc EXCEPT ![t] = "InstChmodScript"]
        /\ \E r \in Plain :
              IF IsErr(r) THEN UNCHANGED <<host, clobbered>>
              ELSE /\ host' = [host EXCEPT !.pkiBy = t]
                   /\ clobbered' = clobbered \cup {u \in Invocations \ {t} : PkiInUse(u)}
        /\ UNCHANGED <<ran, raceFrame>>

\* chmod +x /tmp/k3s-install-modified.sh
InvChmod ==
    \E t \in Invocations :
        /\ ipc[t] = "InstChmodScript"
        /\ \E r \in Plain :
              ipc' = [ipc EXCEPT ![t] = IF IsErr(r) THEN "done" ELSE "InstExec"]
        /\ UNCHANGED <<host, ran, clobbered, raceFrame>>

\* cd /tmp && <env> bash /tmp/k3s-install-modified.sh ...: the command is
\* started; the script on the node runs until the command returns.
InvExec ==
    \E t \in Invocations :
        /\ ipc[t] = "InstExec"
        /\ \E started \in BOOLEAN :
              IF started THEN ipc' = [ipc EXCEPT ![t] = "running"] /\ ran' = ran \cup {t}
                         ELSE ipc' = [ipc EXCEPT ![t] = "done"] /\ ran' = ran
        /\ UNCHANGED <<host, clobbered, raceFrame>>

\* The install command returns: with exit status 0 the binary is installed.
InvExecEnd ==
    \E t \in Invocations :
        /\ ipc[t] = "running"
        /\ ipc' = [ipc EXCEPT ![t] = "done"]
        /\ \E r \in Rsp({""}, {""}) \ {[kind |-> "transport", out |-> ""]} :
              host' = [host EXCEPT !.binary = @ \/ ~IsErr(r)]
        /\ UNCHANGED <<ran, clobbered, raceFrame>>

(***************************************************************************)
(* WebSSHHandler: the terminal connections and the session registry.       *)
(***************************************************************************)
Terminals == 1..MaxTerminals
TerminalNodeIds == 1..2
NoEntry == [owner |-> 0, UsePTY |-> FALSE]
NoTerm == [nodeId |-> 0, at |-> "handler", live |-> FALSE, tries |-> 0, waits |-> <<>>,
           ptySuccess |-> FALSE, shell |-> FALSE, mode |-> "none", cmds |-> 0]
termFrame == <<taskVars, sshVars, handlerVars, raceVars, deployVars, scriptVars, batchVars>>

\* const maxAttempts = 3
maxAttempts == 3

\* A wait of one second after every failed attempt.
FlatWait(attempt) == 1

\* time.Sleep(time.Second * time.Duration(attempt+1)), in seconds
PtyWait(attempt) == attempt + 1

\* ws.Close(); session.Close(); client.Close(): the terminal session is over.
TermClosed(x, place) == [x EXCEPT !.live = FALSE, !.at = place]

\* From the node lookup to the WebSocket upgrade: any of them failing answers
\* the request and returns, with what was opened closed again.
TermOpen(t) ==
    /\ term[t].at = "handler"
    /\ \E ok \in BOOLEAN :
         term' = [term EXCEPT ![t] = IF ok THEN [@ EXCEPT !.live = TRUE, !.at = "register"]
                                         ELSE [@ EXCEPT !.at = "returned"]]
    /\ UNCHANGED <<sshSessions, sshMu, termFrame>>

\* sshMu.Lock(); sshSessions[nodeId] = &SSHSession{...UsePTY: false}; sshMu.Unlock()
TermRegister(t) ==
    /\ term[t].at = "register"
    /\ sshMu = 0
    /\ sshSessions' = [sshSessions EXCEPT ![term[t].nodeId] = [owner |-> t, UsePTY |-> FALSE]]
    /\ term' = [term EXCEPT ![t].at = "StdinPipe"]
    /\ UNCHANGED <<sshMu, termFrame>>

\* session.StdinPipe(), then session.StdoutPipe(): on an error everything is
\* closed and the handler returns.
TermPipe(t) ==
    /\ term[t].at \in {"StdinPipe", "StdoutPipe"}
    /\ \E ok \in BOOLEAN :
         term' = [term EXCEPT ![t] =
                    IF ~ok THEN TermClosed(@, "returned")
                    ELSE [@ EXCEPT !.at = IF @ = "StdinPipe" THEN "StdoutPipe"
                                          ELSE "RequestPty"]]
    /\ UNCHANGED <<sshSessions, sshMu, termFrame>>

\* One turn of the loop: session.RequestPty; on success break, else sleep.
\* waits holds the seconds slept so far, attempt is Len(waits).
TermRequestPty(t) ==
    /\ term[t].at = "RequestPty"
    /\ Len(term[t].waits) < maxAttempts
    /\ \E ok \in BOOLEAN :
         term' = [term EXCEPT ![t] =
                    IF ok THEN [@ EXCEPT !.tries = @ + 1, !.ptySuccess = TRUE, !.at = "Shell"]
                    ELSE [@ EXCEPT !.tries = @ + 1,
                                   !.waits = Append(@, PtyWait(Len(@)))]]
    /\ UNCHANGED <<sshSessions, sshMu, termFrame>>

\* The loop ended with err != nil: non-interactive mode.
TermFallback(t) ==
    /\ term[t].at = "RequestPty"
    /\ Len(term[t].waits) >= maxAttempts
    /\ term' = [term EXCEPT ![t] = [@ EXCEPT !.mode = "commands", !.at = "serving"]]
    /\ UNCHANGED <<sshSessions, sshMu, termFrame>>

\* session.Shell(): on an error everything is closed and the handler returns.
TermShell(t) ==
    /\ term[t].at = "Shell"
    /\ \E ok \in BOOLEAN :
         term' = [term EXCEPT ![t] =
                    IF ok THEN [@ EXCEPT !.shell = TRUE, !.at = "UsePTY"]
                    ELSE TermClosed([@ EXCEPT !.shell = TRUE], "returned")]
    /\ UNCHANGED <<sshSessions, sshMu, termFrame>>

\* sshMu.Lock(); sshSessions[nodeId].UsePTY = true; sshMu.Unlock(): the
\* entry now under nodeId is the one written; with no entry there the nil
\* pointer is dereferenced while sshMu is held.
TermUsePTY(t) ==
    /\ term[t].at = "UsePTY"
    /\ sshMu = 0
    /\ IF sshSessions[term[t].nodeId] = NoEntry
         THEN /\ sshMu' = t
              /\ term' = [term EXCEPT ![t].at = "panicked"]
              /\ UNCHANGED sshSessions
         ELSE /\ sshSessions' = [sshSessions EXCEPT ![term[t].nodeId].UsePTY = TRUE]
              /\ term' = [term EXCEPT ![t] = [@ EXCEPT !.mode = "shell", !.at = "serving"]]
              /\ UNCHANGED sshMu
    /\ UNCHANGED termFrame

\* A command message: written to the shell's stdin (a failed write ends the
\* reading goroutine, whose deferred calls close everything), or run in a
\* session of its own, whose errors are reported and passed over.
TermCommand(t) ==
    /\ term[t].at = "serving"
    /\ term[t].cmds < MaxCommands
    /\ \E ok \in BOOLEAN :
         term' = [term EXCEPT ![t] =
                    IF term[t].ptySuccess /\ ~ok THEN TermClosed(@, "closed")
                    ELSE [@ EXCEPT !.cmds = @ + 1]]
    /\ UNCHANGED <<sshSessions, sshMu, termFrame>>

\* ws.ReadMessage fails without a close frame, or the shell's output ends:
\* the goroutine's deferred calls close everything.
TermGoroutineEnds(t) ==
    /\ term[t].at = "serving"
    /\ term' = [term EXCEPT ![t] = TermClosed(@, "closed")]
    /\ UNCHANGED <<sshSessions, sshMu, termFrame>>

\* The close handler, on the client's close frame: the entry under nodeId is
\* deleted, the session and the client are closed.
TermCloseHandler(t) ==
    /\ term[t].at = "serving"
    /\ sshMu = 0
    /\ sshSessions' = [sshSessions EXCEPT ![term[t].nodeId] = NoEntry]
    /\ term' = [term EXCEPT ![t] = TermClosed(@, "closed")]
    /\ UNCHANGED <<sshMu, termFrame>>

(***************************************************************************)
(* K3sDeployHandler: one background deployment task.                       *)
(***************************************************************************)
stepNames == <<"Validate nodes", "Install K3s Master", "Configure K3s Agents",
               "Apply node labels", "Deploy inSuite">>
NoTask == [Nodes |-> <<>>, Labels |-> 0, at |-> "handler", i |-> 0, n |-> 0, failed |-> FALSE,
           Progress |-> 0, Status |-> "none", Logs |-> <<>>]
taskFrame == <<termVars, sshVars, handlerVars, raceVars, deployVars, scriptVars, batchVars>>

\* A percentage counted down from 100.
PercentLeft(i, steps) == 100 - (i * 100) \div steps

\* progress.Progress = float64((i+1)*100) / float64(len(steps)), i zero-based
Percent(i, steps) == ((i + 1) * 100) \div steps

\* The remote operations the i-th step's action makes when none fails, each
\* able to return an error: a connection test per node; createSSHClient and
\* the install command on the first node named k3s-master; createSSHClient and
\* the join command on every other node; createSSHClient and a command per
\* label; createSSHClient and kubectl apply.
StepOps(i, nodes, labels) ==
    CASE i = 1 -> Len(nodes)
      [] i = 2 -> IF \E k \in 1..Len(nodes) : nodes[k] = masterRoleName THEN 2 ELSE 0
      [] i = 3 -> 2 * Cardinality({k \in 1..Len(nodes) : nodes[k] # masterRoleName})
      [] i = 4 -> 1 + labels
      [] i = 5 -> 2

\* createSSHClient(&req.Nodes[0]): an index out of range on an empty list.
IndexesFirstNode(i) == i \in {4, 5}

\* The handler: the entry is stored under a fresh task id, the goroutine
\* started, the task id answered.
TaskStart ==
    /\ task.at = "handler"
    /\ task' = [task EXCEPT !.Status = "deploying", !.Progress = 0,
                            !.Logs = <<<<"Deployment started">>>>,
                            !.at = "Starting", !.i = 1]
    /\ UNCHANGED taskFrame

\* The loop over steps: append "Starting <name>", or, after the last step,
\* Status = "success" and the closing log line.
TaskStepStarting ==
    /\ task.at = "Starting"
    /\ IF task.i <= Len(stepNames)
         THEN task' = [task EXCEPT !.Logs = Append(@, <<"Starting", stepNames[task.i]>>),
                                   !.at = "action", !.n = 0, !.failed = FALSE]
         ELSE task' = [task EXCEPT !.Status = "success",
                                   !.Logs = Append(@, <<"Deployment completed successfully">>),
                                   !.at = "ended"]
    /\ UNCHANGED taskFrame

\* step.action(): one remote operation at a time; the first error is
\* returned.  An action that indexes the first node of an empty list panics
\* in the goroutine.
TaskStepAction ==
    /\ task.at = "action"
    /\ IF IndexesFirstNode(task.i) /\ Len(task.Nodes) = 0
         THEN task' = [task EXCEPT !.at = "panicked"]
         ELSE IF task.n < StepOps(task.i, task.Nodes, task.Labels)
           THEN \E ok \in BOOLEAN :
                   task' = IF ok THEN [task EXCEPT !.n = @ + 1]
                           ELSE [task EXCEPT !.failed = TRUE, !.at = "stepDone"]
         ELSE task' = [task EXCEPT !.at = "stepDone"]
    /\ UNCHANGED taskFrame

\* After the action: Progress is set; on an error Status = "error" and the
\* goroutine returns, else "Completed <name>" and the next step.
TaskStepDone ==
    /\ task.at = "stepDone"
    /\ IF task.failed
         THEN task' = [task EXCEPT !.Progress = Percent(task.i - 1, Len(stepNames)),
                                   !.Status = "error",
                                   !.Logs = Append(@, <<"Failed", stepNames[task.i]>>),
                                   !.at = "ended"]
         ELSE task' = [task EXCEPT !.Progress = Percent(task.i - 1, Len(stepNames)),
                                   !.Logs = Append(@, <<"Completed", stepNames[task.i]>>),
                                   !.at = "Starting", !.i = @ + 1]
    /\ UNCHANGED taskFrame

(***************************************************************************)
(* Initial states and specifications.                                      *)
(***************************************************************************)
NoPre == [osRelease |-> "", euid |-> "", fw |-> "", path |-> "", d |-> 0, maxSpaceGB |-> 0, maxMountPoint |-> ""]
LabelPairs == {<<masterRoleName, "role=database">>, <<agentBaseName, "role=app">>}
Requests ==
    {[Step |-> s, Nodes |-> ns, Labels |-> ls, RoleAssignment |-> ra] :
        s \in StepNames \cup {"status"}, ns \in NodeLists(MaxNodes), ls \in SUBSET LabelPairs,
        ra \in RoleAssignments}
\* The mount listings the deployment machine's hosts answer df with.
SampleListings ==
    {<<DfHeader, [nf |-> 3, target |-> "/", num |-> 100, unit |-> "G"],
                 [nf |-> 3, target |-> "/data", num |-> 500, unit |-> "G"]>>,
     <<DfHeader, [nf |-> 3, target |-> "/", num |-> 500, unit |-> "G"]>>}

DeployIdle ==
    /\ req = [Step |-> "status", Nodes |-> <<>>, Labels |-> {}, RoleAssignment |-> AllOnMaster]
    /\ pc = "done" /\ resp = NoResp /\ err = "nil" /\ masterNode = 0
    /\ idx = 0 /\ agentIndex = 0
    /\ conn = [c \in ClientVars |-> NoConn]
    /\ open = [n \in 0..MaxNodes |-> 0]
    /\ touched = {} /\ log = {} /\ hostDf = <<>>
    /\ pre = NoPre /\ inst = NoInst /\ mgr = NoMgr
ScriptIdle ==
    /\ script = <<>> /\ opts = InstallOptions(officialInstallURL) /\ modified = NotRun
BatchIdle ==
    /\ bnodes = <<>> /\ bpc = [at |-> "joined", i |-> 1] /\ wpc = <<>>
    /\ results = <<>> /\ writes = <<>>

\* One ExecuteStep call, from the request to the DeployResponse.
DeployInit ==
    /\ req \in {r \in Requests : /\ r.Labels # {} => r.Step = "apply-labels"
                                 /\ r.RoleAssignment # AllOnMaster => r.Step = "deploy-insuite"}
    /\ pc = "ExecuteStep" /\ resp = NoResp /\ err = "nil" /\ masterNode = 0
    /\ idx = 0 /\ agentIndex = 0
    /\ conn = [c \in ClientVars |-> NoConn]
    /\ open = [n \in 0..MaxNodes |-> 0]
    /\ touched = {} /\ log = {}
    /\ hostDf \in IF req.Step = "validate" THEN SampleListings ELSE {<<>>}
    /\ pre = NoPre /\ inst = NoInst /\ mgr = NoMgr
    /\ ScriptIdle /\ BatchIdle /\ ExtIdle

DeployNext ==
    \/ ExecuteStep \/ ExecuteStepReturn
    \/ validateStep \/ installMasterStep \/ configureAgentStep
    \/ applyLabelsStep \/ deployInSuiteStep \/ verifyStep
    \/ ValidateNodesConnect \/ ValidateNodesDone \/ ValidateNodesChecked
    \/ CsrOsRelease \/ CsrRoot \/ CsrDns \/ CsrDnsBackup \/ CsrDnsAppend \/ CsrDnsRecheck
    \/ CsrDomain \/ CsrPing \/ CsrSwap \/ CsrSwapoff \/ CsrSwapFstab \/ CsrSwapRecheck
    \/ CsrNm \/ CsrNmDisable \/ CsrUfwStatus \/ CsrUfwDisable \/ CsrUfwRecheck
    \/ CsrFirewalldStatus \/ CsrCpu \/ CsrMem
    \/ CsrDisk \/ CsrMkdirData \/ CsrStat \/ CsrTestSymlink \/ CsrTestDir
    \/ CsrMkdirParent \/ CsrLn
    \/ InstallMasterConnect \/ InstallMasterReturn
    \/ configureAgentDone \/ configureAgentSkip \/ ConfigureAgentConnectMaster
    \/ GetNodeToken \/ ConfigureAgentTokenFail \/ ConfigureAgentConnectAgent
    \/ ConfigureAgentAgentFail \/ ConfigureAgentInstalled \/ ConfigureAgentReturn
    \/ PanicUnwind
    \/ InstWhich \/ InstInternalIP \/ InstInternalIPFallback \/ InstProbeBaidu
    \/ InstProbeGoogle \/ InstOsRelease \/ InstAltPath \/ InstUname \/ InstDownload
    \/ InstUpload \/ CaDir \/ CaGenerate \/ CaUploadCert \/ CaUploadKey \/ CaChmodCert
    \/ CaChmodKey \/ InstChmodScript \/ InstExec \/ InstCatLogFailed \/ InstCatLog
    \/ VerifyPoll \/ VerifyFinal \/ VerifyJournal \/ VerifyKubectl
    \/ MgrReturn \/ ApplyLabels \/ ApplyNodeLabels \/ ShowLabels \/ DeployInSuite
    \/ MgrUpload \/ MgrApply \/ WaitForDeployment \/ VerifyDeployment \/ VerifyCmd

Spec == DeployInit /\ [][DeployNext]_vars

\* The preflight of one node at its disk step, every earlier check passed
\* without a repair, for every mount listing of at most MaxMounts lines.
DiskEntryLog ==
    {<<"client", op>> : op \in {"cat /etc/os-release", "id -u", "nslookup www.baidu.com",
                                "nslookup mirror domain", "ping", "swapon -s",
                                "is-active nm-cloud-setup", "nproc", "free -m"}}
DiskInit ==
    /\ req = [Step |-> "validate", Nodes |-> <<masterRoleName>>, Labels |-> {},
              RoleAssignment |-> AllOnMaster]
    /\ pc = "CsrDisk" /\ resp = NoResp /\ err = "nil" /\ masterNode = 0
    /\ idx = 1 /\ agentIndex = 0
    /\ conn = [c \in ClientVars |-> IF c = "client" THEN [node |-> 1, st |-> "open"]
                                    ELSE NoConn]
    /\ open = [n \in 0..MaxNodes |-> IF n = 1 THEN 1 ELSE 0]
    /\ touched = {1} /\ log = DiskEntryLog
    /\ hostDf \in DfListings(MaxMounts)
    /\ pre = [NoPre EXCEPT !.osRelease = "alpine", !.euid = "0", !.d = testDomainCount]
    /\ inst = NoInst /\ mgr = NoMgr
    /\ ScriptIdle /\ BatchIdle /\ ExtIdle

DiskNext ==
    \/ CsrDisk \/ CsrMkdirData \/ CsrStat \/ CsrTestSymlink \/ CsrTestDir
    \/ CsrMkdirParent \/ CsrLn
    \/ ValidateNodesChecked \/ ValidateNodesDone \/ ExecuteStepReturn

SpecDisk == DiskInit /\ [][DiskNext]_vars

\* One pass of modifyScriptSelective over every script of at most MaxScriptLen
\* lines, with the options executeInstall builds and year counts around them.
YearCounts == 1..MaxYears \cup {10, clientExpirationYears}
ScriptInit ==
    /\ script \in Scripts(MaxScriptLen)
    /\ opts \in {[InstallOptions(u) EXCEPT !.ClientExpirationYears = y] :
                    u \in {officialInstallURL, officialCNInstallURL}, y \in YearCounts}
    /\ modified = NotRun
    /\ DeployIdle /\ BatchIdle /\ ExtIdle

SpecScript == ScriptInit /\ [][ModifyScript]_vars

\* One batch connectivity request of at most MaxBatch nodes.
BatchInit ==
    /\ bnodes \in UNION {[1..k -> NodeIds] : k \in 0..MaxBatch}
    /\ bpc = [at |-> "spawn", i |-> 1]
    /\ wpc = [w \in 1..Len(bnodes) |-> [at |-> "idle", ok |-> FALSE]]
    /\ results = [w \in 1..Len(bnodes) |-> EmptySlot]
    /\ writes = <<>>
    /\ DeployIdle /\ ScriptIdle /\ ExtIdle

BatchNext == BatchSpawn \/ BatchSpawned \/ WorkerTest \/ WorkerWrite \/ BatchJoin

SpecBatch == BatchInit /\ [][BatchNext]_vars

\* One configure-agent step over every node list of at most MaxAgentNodes nodes.
AgentsInit ==
    /\ req \in {[Step |-> "configure-agent", Nodes |-> ns, Labels |-> {},
                  RoleAssignment |-> AllOnMaster] :
                   ns \in NodeLists(MaxAgentNodes)}
    /\ pc = "ExecuteStep" /\ resp = NoResp /\ err = "nil" /\ masterNode = 0
    /\ idx = 0 /\ agentIndex = 0
    /\ conn = [c \in ClientVars |-> NoConn]
    /\ open = [n \in 0..MaxAgentNodes |-> 0]
    /\ touched = {} /\ log = {} /\ hostDf = <<>>
    /\ pre = NoPre /\ inst = NoInst /\ mgr = NoMgr
    /\ ScriptIdle /\ BatchIdle /\ ExtIdle

AgentsNext ==
    \/ ExecuteStep \/ ExecuteStepReturn \/ configureAgentStep
    \/ configureAgentDone \/ configureAgentSkip \/ ConfigureAgentConnectMaster
    \/ GetNodeToken \/ ConfigureAgentTokenFail \/ ConfigureAgentConnectAgent
    \/ ConfigureAgentAgentFail \/ ConfigureAgentInstalled \/ ConfigureAgentReturn
    \/ PanicUnwind
    \/ InstWhich \/ InstInternalIP \/ InstInternalIPFallback \/ InstProbeBaidu
    \/ InstProbeGoogle \/ InstOsRelease \/ InstAltPath \/ InstUname \/ InstDownload
    \/ InstUpload \/ InstChmodScript \/ InstExec \/ InstCatLogFailed \/ InstCatLog
    \/ VerifyPoll \/ VerifyFinal \/ VerifyJournal

SpecAgents == AgentsInit /\ [][AgentsNext]_vars

\* One Client value and the commands run through it.
ClientInit ==
    /\ ClientIdle /\ HandlersIdle /\ InstallsIdle /\ WebIdle
    /\ DeployIdle /\ ScriptIdle /\ BatchIdle
ClientNext == ClientConnect \/ ClientExecuteCommand \/ ClientClose
SpecClient == ClientInit /\ [][ClientNext]_vars

\* The handlers: MaxRequests concurrent requests of any kinds; a batch
\* worker saves the ID its request carries, a lookup asks for any id.
HandlersInit ==
    /\ hkind \in [Requesters -> HandlerKinds]
    /\ hpc = [t \in Requesters |-> 1]
    /\ hloc \in [Requesters -> [id : 0..MaxRequests, i : {0}, failed : {FALSE}]]
    /\ \A t \in Requesters :
          hloc[t].id = 0 <=> hkind[t] \in {"SSHTestHandler", "K3sDeployHandler"}
    /\ nodesMap = {}
    /\ taskProgress = [t \in Requesters |-> "none"]
    /\ mu = [m \in {"nodesMap", "taskProgress"} |-> 0]
    /\ accesses = {}
    /\ ClientIdle /\ InstallsIdle /\ WebIdle /\ DeployIdle /\ ScriptIdle /\ BatchIdle
HandlersNext ==
    HandlerLock \/ HandlerUnlock \/ HandlerAccess \/ HandlerAct \/ HandlerLoop
SpecHandlers == HandlersInit /\ [][HandlersNext]_vars

\* MaxInvocations install-master invocations for the same master, started
\* on a node with or without the k3s binary.
InstallsInit ==
    /\ ipc = [t \in Invocations |-> "InstWhich"]
    /\ host \in [binary : BOOLEAN, scriptBy : {0}, pkiBy : {0}]
    /\ ran = {} /\ clobbered = {}
    /\ ClientIdle /\ HandlersIdle /\ WebIdle /\ DeployIdle /\ ScriptIdle /\ BatchIdle
InstallsNext == InvWhich \/ InvUpload \/ InvCa \/ InvChmod \/ InvExec \/ InvExecEnd
SpecInstalls == InstallsInit /\ [][InstallsNext]_vars

\* MaxTerminals terminal connections, each to any of the node ids.
TerminalsInit ==
    /\ term \in [Terminals -> {[NoTerm EXCEPT !.nodeId = n] : n \in TerminalNodeIds}]
    /\ sshSessions = [n \in TerminalNodeIds |-> NoEntry]
    /\ sshMu = 0
    /\ TaskIdle /\ ClientIdle /\ HandlersIdle /\ InstallsIdle
    /\ DeployIdle /\ ScriptIdle /\ BatchIdle
TerminalsNext ==
    \E t \in Terminals :
        \/ TermOpen(t) \/ TermRegister(t) \/ TermPipe(t) \/ TermRequestPty(t)
        \/ TermFallback(t) \/ TermShell(t) \/ TermUsePTY(t) \/ TermCommand(t)
        \/ TermGoroutineEnds(t) \/ TermCloseHandler(t)
SpecTerminals == TerminalsInit /\ [][TerminalsNext]_vars

\* One deployment request the endpoint accepts: any node list, the empty
\* one and one without a master included, and up to MaxLabels labels.
TaskInit ==
    /\ task \in {[NoTask EXCEPT !.Nodes = ns, !.Labels = l] :
                    ns \in NodeLists(MaxTaskNodes), l \in 0..MaxLabels}
    /\ TerminalsIdle /\ ClientIdle /\ HandlersIdle /\ InstallsIdle
    /\ DeployIdle /\ ScriptIdle /\ BatchIdle
TaskNext == TaskStart \/ TaskStepStarting \/ TaskStepAction \/ TaskStepDone
SpecTask == TaskInit /\ [][TaskNext]_vars

(***************************************************************************)
(* Properties.                                                             *)
(***************************************************************************)
NoMaster == \A k \in 1..Len(req.Nodes) : req.Nodes[k] # masterRoleName
MasterSteps == {"install-master", "configure-agent", "apply-labels", "deploy-insuite",
                "verify"}
NothingRemote == touched = {} /\ log = {} /\ openSessions = {}
FailedWithMasterNotFound ==
    pc = "done" => ~resp.Success /\ resp.Message = "master not found"

TargetOps == {e \in log : e[1] = inst.client}

\* C3: when `which k3s` on the target answered with exit status 0 and a
\* non-empty output, the installer returns success and `which k3s` is the
\* only remote operation issued on the target: nothing is probed, uploaded
\* or executed and no readiness poll is made.
C3_PresentBinarySkipsInstall ==
    inst.present =>
        /\ TargetOps = {<<inst.client, "which k3s">>}
        /\ err = "nil"
        /\ ~inst.executed /\ inst.files = {} /\ inst.script = NotRun
        /\ inst.installURL = "" /\ inst.caErr = "not run"
        /\ pc \in {"InstallMasterReturn", "ConfigureAgentInstalled", "ConfigureAgentReturn",
                   "configureAgentLoop", "ExecuteStepReturn", "done"}
        /\ pc = "done" => resp.Success

C3_Witness ==
    /\ inst.present /\ inst.target = "agent" /\ pc = "done" /\ resp.Success
    /\ <<"agentClient", "which k3s">> \in log

IsCertLine(l) == l.text = CertLine(0).text
RegistryAt(out) == {k \in 1..Len(out) : out[k] = RegistryCall}
CertAt(out) == {k \in 1..Len(out) : IsCertLine(out[k])}
OpenersAt(lines, opener) == {k \in 1..Len(lines) : lines[k] = opener}
\* The first brace line after position k, 0 when there is none.
FirstBraceAfter(lines, k) ==
    IF \E j \in (k + 1)..Len(lines) : lines[j] = Brace
      THEN CHOOSE j \in (k + 1)..Len(lines) :
             lines[j] = Brace /\ \A h \in (k + 1)..(j - 1) : lines[h] # Brace
      ELSE 0
\* The line at p stands immediately before the brace line closing the routine
\* that `opener` opens: the next line is a brace line, and an opener above p
\* has no brace line between itself and p.
BeforeOwnBrace(out, p, opener) ==
    /\ p < Len(out) /\ out[p + 1] = Brace
    /\ \E o \in 1..(p - 1) : out[o] = opener /\ \A j \in (o + 1)..(p - 1) : out[j] # Brace
NotInjected(l) == l # RegistryCall /\ ~IsCertLine(l)
InjectedOnceEach(in, out) ==
    /\ Cardinality(RegistryAt(out)) = 1
    /\ Cardinality(CertAt(out)) = 1
    /\ \A p \in RegistryAt(out) : BeforeOwnBrace(out, p, SetupEnvOpen)
    /\ \A p \in CertAt(out) : BeforeOwnBrace(out, p, CreateEnvOpen)
    /\ SelectSeq(out, NotInjected) = in
BothEnabled == opts.EnableRegistry /\ opts.EnableCertConfig
HasBothOpeners(in) == OpenersAt(in, SetupEnvOpen) # {} /\ OpenersAt(in, CreateEnvOpen) # {}
\* Each opener occurs once and is followed by a brace line, and neither
\* opener lies between the other opener and the first brace line after it.
RoutinesApart(in) ==
    /\ Cardinality(OpenersAt(in, SetupEnvOpen)) = 1
    /\ Cardinality(OpenersAt(in, CreateEnvOpen)) = 1
    /\ \A a \in OpenersAt(in, SetupEnvOpen), b \in OpenersAt(in, CreateEnvOpen) :
         /\ FirstBraceAfter(in, a) # 0 /\ FirstBraceAfter(in, b) # 0
         /\ ~(a < b /\ b < FirstBraceAfter(in, a))
         /\ ~(b < a /\ a < FirstBraceAfter(in, b))

C5_ExpirationDaysAreYearsTimes365 ==
    /\ \A u \in {officialInstallURL, officialCNInstallURL} : InstallOptions(u).DaysInYear = 365
    /\ opts.DaysInYear = 365
    /\ modified # NotRun =>
         \A k \in CertAt(modified) : modified[k].n = opts.ClientExpirationYears * 365

C5_Witness ==
    /\ opts.ClientExpirationYears = 10
    /\ modified # NotRun
    /\ \E k \in CertAt(modified) : modified[k].n = 3650

\* The name the i-th (zero-based) agent is to be installed under.
NameOfAgent(i) == IF i = 0 THEN <<"k3s-agent">> ELSE <<"k3s-agent", i + 1>>
NonMastersBefore(k) == Cardinality({j \in 1..(k - 1) : req.Nodes[j] # masterRoleName})
InstallingAgent ==
    /\ inst.target = "agent" /\ inst.nodeName # <<>>
    /\ pc \notin {"configureAgentLoop", "ExecuteStepReturn", "done"}

\* C6: while configure-agent installs the node at position idx, the i-th
\* non-master node of the request (zero-based), the node name handed to the
\* installer is k3s-agent for i = 0 and k3s-agent-(i+1) otherwise, wherever
\* the master sits; for [master, a, b, c] the names are k3s-agent,
\* k3s-agent-2, k3s-agent-3.
C6_AgentNamesFollowPosition ==
    InstallingAgent =>
        /\ req.Nodes[idx] # masterRoleName
        /\ inst.nodeName = NameOfAgent(NonMastersBefore(idx))
        /\ req.Nodes = <<masterRoleName, "worker", "worker", "worker">> =>
             inst.nodeName = CASE idx = 2 -> <<"k3s-agent">>
                               [] idx = 3 -> <<"k3s-agent", 2>>
                               [] idx = 4 -> <<"k3s-agent", 3>>

C6_Witness ==
    /\ req.Nodes = <<masterRoleName, "worker", "worker", "worker">>
    /\ idx = 4 /\ pc = "InstExec" /\ inst.nodeName = <<"k3s-agent", 3>>

\* C7: the readiness loops are bounded and end in an error when the awaited
\* state never appears.  The service loop makes at most 18 polls, each
\* "not active" answer takes one attempt, the check after the loop is made
\* once, and a "not active" answer to it makes the installer return the
\* service-not-running error; waitForDeployment makes at most 30 polls of one
\* deployment, each unready answer takes one, and after the 30th poll it
\* either has seen the ready replica or returns the timeout error.
C7_ReadinessPollsBounded ==
    /\ [](/\ inst.attempt <= 18
          /\ pc = "VerifyPoll" => inst.attempt < 18
          /\ mgr.i < 30 /\ mgr.polls <= 30
          /\ err = "deployment timed out" => mgr.polls = 30)
    /\ [][/\ (pc = "VerifyPoll" /\ pc' = "VerifyPoll") => inst'.attempt = inst.attempt + 1
          /\ (pc = "VerifyPoll" /\ inst.attempt = 17 /\ pc' # "panicking") => pc' = "VerifyFinal"
          /\ pc = "VerifyFinal" => pc' \in {"VerifyJournal", "VerifyKubectl",
                                            "ConfigureAgentInstalled"}
          /\ (pc = "VerifyJournal" /\ ~inst.lastNil) =>
                (err' = "service not running"
                   /\ pc' \in {"InstallMasterReturn", "ConfigureAgentInstalled"})
          /\ (pc = "WaitForDeployment" /\ pc' = "WaitForDeployment" /\ mgr'.d = mgr.d)
                => mgr'.i = mgr.i + 1
          /\ (pc = "WaitForDeployment" /\ mgr.i = 29) =>
                \/ pc' = "MgrReturn" /\ err' = "deployment timed out"
                \/ pc' = "MgrReturn" /\ err' = "nil" /\ mgr.d = 3
                \/ pc' = "WaitForDeployment" /\ mgr'.d = mgr.d + 1 /\ mgr'.i = 0
         ]_vars

C7_Witness == pc = "VerifyFinal" /\ inst.attempt = 18 /\ inst.target = "server"

\* C8: after the join every result slot is filled and results[i] is the
\* outcome of testing nodes[i], whatever order the workers finished in, and
\* each worker has written its own slot only.
C8_BatchResultsKeepRequestOrder ==
    /\ \A k \in 1..Len(writes) : writes[k][2] = writes[k][1]
    /\ bpc.at = "joined" =>
         \A i \in 1..Len(bnodes) :
            /\ results[i].filled
            /\ results[i].ID = bnodes[i]
            /\ results[i].Success = wpc[i].ok

C8_Witness ==
    /\ bpc.at = "joined" /\ Len(bnodes) >= 2 /\ bnodes[1] # bnodes[2]
    /\ writes[1][1] # 1
    /\ results[1].ID = bnodes[1] /\ results[2].ID = bnodes[2]

DiskLine(m, n, u) == [nf |-> 3, target |-> m, num |-> n, unit |-> u]
UsableLines == {k \in 1..Len(hostDf) : hostDf[k].nf >= 3 /\ hostDf[k].unit \in {"G", "M", "T"}}
\* Available space of line k in megabytes.
SpaceMB(k) ==
    CASE hostDf[k].unit = "G" -> hostDf[k].num * 1024
      [] hostDf[k].unit = "M" -> hostDf[k].num
      [] hostDf[k].unit = "T" -> hostDf[k].num * 1024 * 1024
MountChosen == pc # "CsrDisk" /\ err # "cannot list partitions"
LinkIssued == <<"client", "ln -sf">> \in log
ExampleListing == <<DiskLine("/", 100, "G"), DiskLine("/data", 500, "G")>>

CaErrors == {"cert dir failed", "generation failed", "cert upload failed",
             "key upload failed", "cert chmod failed", "key chmod failed"}
CaFailed == inst.target = "server" /\ inst.caErr \in CaErrors
InstallReturned == pc \in {"InstallMasterReturn", "ExecuteStepReturn", "done"}

\* C10 (as stated): when generateCustomCACerts fails on a server target,
\* executeInstall still executes the install script, and the outcome of the
\* master installation is that of the script execution and the readiness
\* verification.
C10_CaFailureStillExecutesScript ==
    CaFailed =>
        /\ InstallReturned => inst.executed
        /\ err \in {"nil", "install script failed", "service not running",
                    "kubectl failed", "master not ready"}

\* C10 (amended): when generateCustomCACerts fails on a server target, the
\* failure is never the outcome: executeInstall goes on to chmod +x of the
\* staged script and, unless that command fails, executes the install
\* script; the outcome of the master installation is that of the chmod, the
\* script execution and the readiness verification.
C10_CaFailureIsNotFatal ==
    CaFailed =>
        /\ err \notin CaErrors /\ resp.Message \notin CaErrors
        /\ InstallReturned => (inst.executed \/ err = "script chmod failed")
        /\ err = "script chmod failed" => ~inst.executed
        /\ err \in {"nil", "script chmod failed", "install script failed",
                    "service not running", "kubectl failed", "master not ready"}
        /\ pc \notin {"CaDir", "CaGenerate", "CaUploadCert", "CaUploadKey", "CaChmodCert",
                      "CaChmodKey"}

C10_Witness ==
    /\ CaFailed /\ inst.caErr = "key upload failed"
    /\ inst.executed /\ pc = "done" /\ resp.Success


\* The places of generateCustomCACerts and the remote operations it issues.
CaStages == {"CaDir", "CaGenerate", "CaUploadCert", "CaUploadKey", "CaChmodCert",
             "CaChmodKey"}
CaOps == {"prepare cert dir", "upload certificate", "upload private key",
          "chmod 644 certificate", "chmod 600 private key"}
PkiInvoked == inst.caErr # "not run" \/ pc \in CaStages

\* C11: within one installer run the custom PKI step runs only for the server
\* target and is over before the install script is executed: while it runs
\* the script has not been executed; once the script has been executed the
\* PKI step has been run exactly when the target is the server; during an
\* agent installation no certificate or key file is uploaded and no PKI
\* operation is issued on any session.
C11_PkiOnlyForServerBeforeScript ==
    /\ pc \in CaStages => inst.target = "server" /\ ~inst.executed
    /\ inst.executed => pc \notin CaStages
    /\ inst.executed => (PkiInvoked <=> inst.target = "server")
    /\ PkiInvoked => inst.target = "server" /\ ~isAgentMode(BaseEnv(inst.target))
    /\ inst.target = "agent" =>
         /\ inst.files = {}
         /\ \A c \in ClientVars, o \in CaOps : <<c, o>> \notin log

C11_Witness ==
    /\ inst.target = "server" /\ inst.executed /\ inst.caErr = "nil"
    /\ Cardinality(inst.files) = 2 * caPairs
    /\ <<"client", "run install script">> \in log

\* The mode saveCertificateAndKey is to give a file of the kind.
RequiredMode(kind) == IF kind = "crt" THEN "644" ELSE "600"

\* C12: when the install script is executed on the master, every certificate
\* file the certificate-authority step uploaded has mode 644 and every
\* private-key file it uploaded has mode 600.
C12_UploadedFilesHaveTheirModes ==
    (inst.target = "server" /\ inst.executed) =>
        \A f \in inst.files : f[3] = RequiredMode(f[2])

ServerOnlyArgs == {"--system-default-registry", "--disable-default-registry-endpoint"}
ArgsGiven == {inst.args[k] : k \in 1..Len(inst.args)}
EnvGiven == {inst.env[k] : k \in 1..Len(inst.env)}

\* C13: the arguments given to the install script of an agent target (its
\* environment has K3S_URL) contain neither --system-default-registry nor
\* --disable-default-registry-endpoint, whichever mirror was selected; those
\* of a server target contain both when the regional mirror was selected and
\* neither otherwise.
C13_RegistryArgsForServerOnMirrorOnly ==
    inst.executed =>
        /\ "K3S_URL" \in EnvGiven <=> inst.target = "agent"
        /\ inst.target = "agent" => ArgsGiven \cap ServerOnlyArgs = {}
        /\ inst.target = "server" =>
             IF inst.installURL = officialCNInstallURL
               THEN ServerOnlyArgs \subseteq ArgsGiven
               ELSE ArgsGiven \cap ServerOnlyArgs = {}

C13_Witness ==
    /\ inst.executed /\ inst.target = "agent"
    /\ inst.installURL = officialCNInstallURL
    /\ "INSTALL_K3S_MIRROR" \in EnvGiven /\ "K3S_URL" \in EnvGiven
    /\ inst.args = <<>>

\* C14: getInstallURL returns the international URL exactly when the domestic
\* and the international probe both succeeded; when a probe exited non-zero
\* or could not be run it returns the regional mirror URL; it returns no
\* error (the second probe is made only after the first succeeded).
C14_InternationalOnlyWhenBothProbesSucceed ==
    /\ Len(inst.probes) <= 2
    /\ (pc = "InstOsRelease") =>
         /\ inst.probes # <<>>
         /\ err = "nil"
         /\ inst.installURL \in {officialInstallURL, officialCNInstallURL}
         /\ inst.installURL = officialInstallURL <=> inst.probes = <<"ok", "ok">>
         /\ Len(inst.probes) = 2 => inst.probes[1] = "ok"

C14_Witness ==
    /\ pc = "InstOsRelease"
    /\ inst.probes = <<"ok", "transport">>
    /\ inst.installURL = officialCNInstallURL

VerifiedMaster ==
    /\ inst.target = "server" /\ inst.executed
    /\ pc = "InstallMasterReturn" /\ err = "nil"

\* C15: verifyMasterInstallation returns success only if the k3s service was
\* reported active and the node listing showed the master node Ready; a
\* listing that shows the node NotReady makes the master installation fail.
C15_SuccessOnlyWhenMasterReady ==
    /\ VerifiedMaster => inst.listing = "Ready"
    /\ (inst.target = "server" /\ pc = "InstallMasterReturn" /\ inst.listing = "NotReady")
           => err # "nil"

\* C16: every outcome ExecuteStep returns, success or failure and the one for
\* a step name without a handler included, carries the request's step name in
\* its Step field, and an unknown step name yields a failure with no remote
\* operation.
C16_EveryOutcomeEchoesStep ==
    pc = "done" =>
        /\ resp.Step = req.Step
        /\ req.Step \notin StepNames => ~resp.Success /\ NothingRemote

RemoteFailure(call) == call.run.kind = "exited" /\ call.run.code # 0
TransportFailure(call) == call.run.kind \in {"lost", "no session"}
\* What a caller can branch on without reading message text: whether there is
\* a result, its exit status, and the error's type.
Observable(ret) == <<ret.hasResult, ret.ExitCode, ret.errType>>
ExitStatusReported ==
    \A k \in 1..Len(calls) :
       /\ (calls[k].ret.hasResult /\ calls[k].ret.ExitCode = 0 /\ calls[k].ret.errType = "nil")
             <=> calls[k].run = Exited(0)
       /\ RemoteFailure(calls[k]) =>
             calls[k].ret.hasResult /\ calls[k].ret.ExitCode = calls[k].run.code

\* C17: ExecuteCommand reports exit status 0 exactly when the remote command
\* ran and succeeded, a non-zero status when it ran and failed, and a
\* transport failure (no session, connection lost during the run) as an error
\* kind the caller can tell apart from every remote non-zero exit.
C17_TransportFailureIsItsOwnKind ==
    /\ ExitStatusReported
    /\ \A k \in 1..Len(calls) :
         TransportFailure(calls[k]) =>
            \A n \in 1..MaxExitCode :
               Observable(calls[k].ret) # Observable(ExecuteCommand("open", Exited(n)))

\* C18: the pod-placement constraint of each tier's manifest is determined by
\* the request's role assignment: a request that assigns the tier to another
\* node would have produced another constraint than the one uploaded.
C18_PlacementFollowsRoleAssignment ==
    \A f \in mgr.uploaded :
       f.tier # "none" =>
          \A ra \in RoleAssignments :
             ra[f.tier] # req.RoleAssignment[f.tier]
                => <<nodeSelector(f.tier, ra)>> # f.nodeSelector

ValidateRequest == req.Step = "validate"
\* The nodes whose preflight worker has been started: those dialled.
PreflightStarted == touched
\* ValidateNodes as the code runs it: the session of at most one node is open
\* at any time, and a node is dialled only after every node before it passed.
ValidateOneNodeAtATime ==
    ValidateRequest =>
        /\ Cardinality(openSessions) <= 1
        /\ \A n \in PreflightStarted : \A k \in 1..(n - 1) : k \in PreflightStarted

\* C19: the validate step fans out one preflight worker per node and joins
\* all of them before it returns the step outcome: when the outcome is
\* returned, the preflight of every node of the request has been started and
\* has ended, whatever the other nodes' checks gave.
C19_ValidateFansOutAndJoins ==
    (ValidateRequest /\ pc = "done") =>
        /\ \A n \in 1..Len(req.Nodes) : n \in PreflightStarted
        /\ openSessions = {}

\* Each access made so far to nodesMap or taskProgress was made by a request
\* holding the map's mutex, except the len(nodesMap) of SSHTestHandler.
LockedExceptLenInSSHTest ==
    \A a \in accesses :
        ~a.locked => a.by = "SSHTestHandler" /\ a.do = "len" /\ a.on = "nodesMap"

\* Every access to taskProgress is made under taskMu.
TaskProgressAlwaysLocked ==
    \A a \in accesses : a.on = "taskProgress" => a.locked

\* At most one request is between Lock and Unlock of a mutex, and it is the
\* recorded holder.
MutualExclusion ==
    \A t \in Requesters :
        (~Finished(t) /\ Current(t).do \in {"read", "write", "unlock"})
            => mu[Current(t).on] = t

\* C20: every read and every write of nodesMap and of taskProgress is made
\* while the accessing request holds the map's mutex (nodesMu, taskMu).
C20_EveryMapAccessHoldsItsMutex ==
    \A a \in accesses : a.locked

\* Two SSHTestHandler requests that both succeeded saved under one key.
TwoTestsOneKey ==
    /\ \A t \in Requesters : hkind[t] = "SSHTestHandler" /\ Finished(t) /\ ~hloc[t].failed
    /\ Cardinality(nodesMap) = 1

\* The places of one ConfigureAgent invocation after the token has been read
\* with success, and the places of the installer.
InstallerStages ==
    {"InstWhich", "InstInternalIP", "InstInternalIPFallback", "InstProbeBaidu",
     "InstProbeGoogle", "InstOsRelease", "InstAltPath", "InstUname", "InstDownload",
     "InstUpload", "InstChmodScript", "InstExec", "InstCatLogFailed", "InstCatLog",
     "VerifyPoll", "VerifyFinal", "VerifyJournal"}
TokenReadInThisInvocation ==
    /\ <<"masterClient", "cat node-token">> \in log
    /\ inst.token # ""
TokenFailure == err \in {"token read failed", "token empty"}

\* C21: in configure-agent the join token is read from the master before the
\* session to the agent is opened; the installer runs for an agent only with
\* a non-empty token read in that same ConfigureAgent invocation; when the
\* token cannot be read or is empty, the agent is never dialled.
C21_TokenBeforeAgentSession ==
    req.Step = "configure-agent" =>
        /\ pc = "ConfigureAgentConnectAgent" =>
              /\ TokenReadInThisInvocation
              /\ conn["masterClient"].st = "open"
              /\ idx \notin touched
        /\ conn["agentClient"].st = "open" => TokenReadInThisInvocation
        /\ (pc \in InstallerStages /\ inst.target = "agent") =>
              /\ TokenReadInThisInvocation
              /\ conn["agentClient"] = [node |-> idx, st |-> "open"]
        /\ (TokenFailure /\ pc # "configureAgentLoop") =>
              /\ idx \notin touched
              /\ conn["agentClient"].st # "open"
              /\ \A p \in log : p[1] # "agentClient"

C21_Witness ==
    /\ req.Step = "configure-agent" /\ agentIndex = 1
    /\ pc = "InstExec" /\ inst.target = "agent" /\ inst.token = "K10token"
    /\ <<"masterClient", "cat node-token">> \in log

\* The agents of the request: the positions of the nodes not named k3s-master.
AgentPositions == {k \in 1..Len(req.Nodes) : req.Nodes[k] # masterRoleName}
AgentsDialled == touched \ {masterNode}

\* In every state of configure-agent: sessions are open to at most the master
\* and the agent at the loop position, one each; between two agents no
\* session is open; the agents dialled are positions up to the loop position,
\* and agentIndex counts the agents passed.
OneAgentAtATime ==
    req.Step = "configure-agent" =>
        /\ \A n \in DOMAIN open : open[n] <= 1
        /\ \A n \in DOMAIN open : open[n] = 1 => n \in {masterNode, idx}
        /\ conn["agentClient"].st = "open" =>
              conn["agentClient"].node = idx /\ idx \in AgentPositions
        /\ conn["masterClient"].st = "open" => conn["masterClient"].node = masterNode
        /\ conn["client"].st # "open"
        /\ pc = "configureAgentLoop" => \A n \in DOMAIN open : open[n] = 0
        /\ AgentsDialled \subseteq {k \in AgentPositions : k <= idx}
        /\ pc \notin {"ExecuteStep", "configure-agent", "ExecuteStepReturn", "done"} =>
              agentIndex = Cardinality({k \in AgentPositions : k < idx})
        /\ (pc = "done" /\ resp.Success) =>
              \A k \in AgentPositions : k \in touched
        /\ (pc = "done" /\ ~resp.Success /\ masterNode # 0) =>
              /\ resp.Message = err /\ err # "nil"
              /\ \A k \in AgentPositions : k > idx => k \notin touched

\* Once ConfigureAgent has an error to return, nothing more is done on any
\* node: no node is dialled, no command is issued, the loop does not advance.
FailFast ==
    (req.Step = "configure-agent" /\ err # "nil")
        => (touched' = touched /\ log' = log /\ idx' = idx /\ agentIndex' = agentIndex)

\* C22: configure-agent handles the nodes not named k3s-master one at a time
\* in request order, with at most one agent session and one master session
\* open at any moment; at the first agent that fails it returns that error
\* and issues nothing more: no later agent is dialled and nothing is undone
\* on an earlier one.
C22_AgentsSeriallyFailFast == []OneAgentAtATime /\ [][FailFast]_vars

C22_Witness ==
    /\ req.Step = "configure-agent" /\ pc = "done" /\ ~resp.Success
    /\ Cardinality(AgentPositions) = 3 /\ Cardinality(AgentsDialled) = 2
    /\ agentIndex = 1 /\ inst.executed

\* The remote commands of the preflight that change the node.
StateChangingOps ==
    {"cp resolv.conf", "append nameservers", "swapoff -a", "sed fstab",
     "disable nm-cloud-setup", "ufw disable", "stop firewalld", "mkdir data dir",
     "mkdir parent dir", "ln -sf"}
NothingChanged == \A p \in log : p[2] \notin StateChangingOps
ReleaseAnswered == <<"client", "cat /etc/os-release">> \in log
EuidAnswered == <<"client", "id -u">> \in log
PreflightFailed == pc \in {"ValidateNodesChecked", "ExecuteStepReturn", "done"} /\ err # "nil"

\* C23: for a node whose release text has no ID line or an ID outside the
\* allow-list, or whose effective user id is not 0, the preflight fails and
\* no state-changing command has been issued on that node.
C23_UnsupportedOrNonRootChangesNothing ==
    req.Step = "validate" =>
        /\ (ReleaseAnswered /\ OsId(pre.osRelease) \notin supportedDistros) =>
              /\ PreflightFailed /\ NothingChanged
              /\ pc = "done" => ~resp.Success
        /\ (EuidAnswered /\ pre.euid # "0") =>
              /\ PreflightFailed /\ NothingChanged
              /\ pc = "done" => ~resp.Success
        /\ pc \in {"CsrOsRelease", "CsrRoot", "CsrDns"} => NothingChanged

C23_Witness ==
    /\ req.Step = "validate" /\ pc = "done" /\ idx = 2
    /\ EuidAnswered /\ pre.euid = "1000" /\ pre.osRelease = "centos"
    /\ err = "not root" /\ log = {<<"client", "cat /etc/os-release">>, <<"client", "id -u">>}

FirewallFamily == isUbuntu(pre.osRelease) \/ isFirewalldBased(pre.osRelease)
FirewallOffOps == {"ufw disable", "stop firewalld", "disable firewalld"}
FirewallErrors == {"ufw disable failed", "ufw still active"}

\* C24: on a ufw-family or firewalld-family node the firewall step is left
\* for the CPU check only with the firewall not observed active, and a
\* firewall observed active at the start of the step has had its disable/stop
\* command issued; the step fails only with the firewall still active.
C24_PassedFirewallStepMeansInactive ==
    (req.Step = "validate" /\ FirewallFamily) =>
        /\ pc = "CsrCpu" => pre.fw # "active"
        /\ (pc = "CsrCpu" /\ pre.fw = "active") =>
              \E o \in FirewallOffOps : <<"client", o>> \in log
        /\ (pc = "ValidateNodesChecked" /\ err \in FirewallErrors) => pre.fw = "active"

\* On a ufw-family node whose status answered active, the validator issues
\* ufw disable and goes on to the CPU check only when the re-check did not
\* answer active.
UfwRemediated ==
    (req.Step = "validate" /\ isUbuntu(pre.osRelease) /\ pc = "CsrCpu"
        /\ <<"client", "ufw disable">> \notin log) => pre.fw # "active"

\* A firewalld-family node at the CPU check never had a stop or disable
\* command issued.
FirewalldNeverStopped ==
    (req.Step = "validate" /\ isFirewalldBased(pre.osRelease) /\ ~isUbuntu(pre.osRelease)) =>
        \A p \in log : p[2] \notin FirewallOffOps

DataDirOps == {<<"client", "mkdir data dir">>, <<"client", "ln -sf">>}
MeetsMinimum == pre.maxSpaceGB >= requiredSpaceGB * 1024

\* C25: the disk step creates the data directory on the selected mount and
\* the /var/lib/rancher/k3s symbolic link only if the selected mount has at
\* least 450 GB and is not the root filesystem, and it issues no link command
\* when the default path answered as a symlink or as a directory.
C25_SymlinkOnlyOnLargeNonRootMount ==
    /\ (log \cap DataDirOps # {}) => (MeetsMinimum /\ pre.maxMountPoint # "/")
    /\ pre.path \in {"symlink", "directory"} => <<"client", "ln -sf">> \notin log

\* What the code does: the directory and the link are made whenever the
\* selected mount is not the root filesystem, whatever its size, unless the
\* default path answered as a symlink or as a directory.
SymlinkOnAnyNonRootMount ==
    /\ (log \cap DataDirOps # {}) => pre.maxMountPoint \notin {"", "/"}
    /\ pre.path \in {"symlink", "directory"} => <<"client", "ln -sf">> \notin log
    /\ (pc = "ValidateNodesChecked" /\ err = "nil" /\ pre.maxMountPoint # "/"
          /\ pre.path = "") => <<"client", "ln -sf">> \in log

\* The listing has a line of some mount (three fields, not the header).
ListsAMount == \E k \in 1..Len(hostDf) : hostDf[k].nf = 3 /\ hostDf[k].target \in Mounts

\* C26: the disk sizing never fails validation: whatever mounts the listing
\* df returned holds, also with every mount at zero or kilobyte-scale free
\* space, the preflight does not end with the no-usable-partition error.
C26_DiskSizingNeverFails == ListsAMount => err # "no usable partition"

\* The lines of the listing that can be selected: three fields, a size in
\* G, M or T, and more than zero space.
Selectable(line) == line.nf >= 3 /\ HasSizeUnit(line) /\ AvailGB(line) > 0

\* What the code does: the sizing fails exactly when no line of the listing
\* can be selected; a selected mount below 450 GB does not fail it.
SizingFailsOnlyWithoutSelectableLine ==
    /\ err = "no usable partition" =>
          \A k \in 1..Len(hostDf) : ~Selectable(hostDf[k])
    /\ (<<"client", "df">> \in log /\ err \notin {"cannot list partitions", "no usable partition"}) =>
          /\ \E k \in 1..Len(hostDf) : Selectable(hostDf[k])
          /\ pre.maxMountPoint # ""

NmDisableIssued == <<"client", "disable nm-cloud-setup">> \in log

\* C27: the cloud-network-agent step never fails validation: after the
\* disable command has been issued the preflight goes on to the firewall
\* step, whether or not the command succeeded.
C27_NmCloudSetupNeverFatal ==
    req.Step = "validate" =>
        /\ err # "nm-cloud-setup disable failed"
        /\ (NmDisableIssued /\ pc = "ValidateNodesChecked") =>
              \E p \in log : p[2] \in {"ufw status", "firewalld status", "nproc"}

\* What the code does: the step ends the preflight exactly when the disable
\* command was issued and did not succeed; an inactive agent, or one whose
\* status cannot be read, is passed over without a command.
NmFatalOnlyWhenDisableFails ==
    req.Step = "validate" =>
        /\ err = "nm-cloud-setup disable failed" =>
              /\ NmDisableIssued
              /\ \A p \in log : p[2] \notin {"ufw status", "firewalld status", "nproc"}
        /\ pc = "CsrNmDisable" => <<"client", "is-active nm-cloud-setup">> \in log

InstallMasterSucceeded == req.Step = "install-master" /\ pc = "done" /\ resp.Success
VerifiedInThisInvocation ==
    /\ <<"client", "systemctl is-active">> \in log
    /\ <<"client", "kubectl get nodes">> \in log

\* C28: an install-master step reports success only if, within that same
\* invocation, the k3s service was observed active and the node listing was
\* checked, whatever earlier attempts left on the node.
C28_SuccessOnlyAfterVerification == InstallMasterSucceeded => VerifiedInThisInvocation

\* What the code does: success is reported after the verification, or
\* without any verification when `which k3s` found a binary on the node.
SuccessAfterVerificationOrSkip ==
    InstallMasterSucceeded =>
        \/ VerifiedInThisInvocation /\ inst.executed /\ ~inst.present
        \/ inst.present /\ log = {<<"client", "which k3s">>}

FileKinds == {"crt", "key"}
Uploaded(p, k) == \E f \in inst.files : f[1] = p /\ f[2] = k
AllPairsUploaded == \A p \in 1..caPairs, k \in FileKinds : Uploaded(p, k)
ServerScriptExecuted == inst.target = "server" /\ inst.executed

\* C29: when the install script is executed on a server target, the PKI
\* directory on the master holds all of the generated pairs (five CAs and
\* three leaves, certificate and key each) or none of them.
C29_PkiAllOrNothing == ServerScriptExecuted => (inst.files = {} \/ AllPairsUploaded)

\* What the code does: the files uploaded before a failing PKI step stay on
\* the node; the set is complete exactly when the PKI step ended without
\* error, and the pairs are uploaded in their order.
PkiPrefixLeftOnFailure ==
    ServerScriptExecuted =>
        /\ inst.caErr = "nil" <=> (AllPairsUploaded /\ \A f \in inst.files : f[3] # "as uploaded")
        /\ \A p \in 2..caPairs : Uploaded(p, "crt") => Uploaded(p - 1, "key")

\* C30: of two concurrent install-master invocations for the same master, at
\* most one executes the install script on the node, and the staged script
\* and PKI files of an invocation are never overwritten by the other one
\* while it is installing.
C30_OneInstallAtATime == Cardinality(ran) <= 1 /\ clobbered = {}

\* What the code does give: the script is executed only after some
\* invocation staged it, and on a node that has the binary from the start
\* nothing is staged or executed.
ExecutedOnlyAfterStaging ==
    /\ ran # {} => host.scriptBy # 0
    /\ (host.binary /\ host.scriptBy = 0) => (ran = {} /\ clobbered = {})

Crashed == pc \in {"panicking", "panicked"}

\* C31: readiness verification never crashes: when the service-status
\* command cannot be run at the transport level, verifyMasterInstallation and
\* verifyAgentInstallation return an error to their caller.
C31_VerificationNeverCrashes == ~Crashed

\* What the code does: the crash happens only inside the verification, after
\* the status command was issued on the target, and the step then returns no
\* DeployResponse; a status command answered with a non-zero exit status is
\* an error returned.
CrashOnlyInVerification ==
    /\ Crashed =>
          /\ inst.executed
          /\ <<inst.client, "systemctl is-active">> \in log
          /\ resp = NoResp
    /\ err = "service not running" => ~inst.lastNil

VerifySucceeded == req.Step = "verify" /\ pc = "done" /\ resp.Success

\* C32: the verify step succeeds only if each of the three application tiers
\* has at least one pod in the Running phase in the application namespace.
C32_VerifyNeedsRunningPodPerTier ==
    VerifySucceeded =>
        /\ mgr.pods # <<>>
        /\ \A t \in 1..Len(Tiers) : mgr.pods[t] = "Running"

\* What the code does: the step succeeds when the listing of the pods not
\* Running is empty, also for a namespace without pods.
VerifyNeedsNoPodNotRunning ==
    /\ VerifySucceeded =>
          /\ mgr.pods # <<>>
          /\ \A t \in 1..Len(Tiers) : mgr.pods[t] # "Pending"
    /\ (req.Step = "verify" /\ err = "pods not running") =>
          \E t \in 1..Len(Tiers) : mgr.pods[t] = "Pending"

ConfigureAgentSucceeded == req.Step = "configure-agent" /\ pc = "done" /\ resp.Success

\* C33: after a successful configure-agent step each node of the list is
\* either the resolved master or a node the agent installation ran on, for
\* every node list, several nodes with the master name included.
C33_EveryNodeMasterOrAgent ==
    ConfigureAgentSucceeded =>
        \A k \in 1..Len(req.Nodes) : k = masterNode \/ k \in AgentsDialled

\* What the code does: the agents configured are the nodes whose name is not
\* the master name; a later node with the master name is passed over.
AgentsAreTheOtherNames ==
    ConfigureAgentSucceeded => AgentsDialled = AgentPositions

\* The texts a node-token file can hold as a token.
TokenTexts == {"K10token", "K20token"}
AgentCommandLogged == inst.target = "agent" /\ inst.executed

\* C34: the join token never appears in the log output of an agent
\* installation: the lines executeInstall logs are the same whatever the
\* token, here the line logged for the command of an executed installation.
C34_LogSameForAnyToken ==
    AgentCommandLogged =>
        \A t \in TokenTexts : CommandLogged(inst.env, [inst EXCEPT !.token = t]) = inst.logged

\* What the code does: the command is logged as it is run, the K3S_TOKEN
\* assignment with the token read from the master in it.
TokenInLoggedCommand ==
    AgentCommandLogged =>
        /\ inst.token \in TokenTexts
        /\ \E k \in 1..Len(inst.logged) : inst.logged[k] = <<"K3S_TOKEN", inst.token>>
        /\ inst.logged = CommandLogged(inst.env, inst)

\* No line opening the routine is followed, anywhere later, by a brace line.
NeverClosed(s, opener) ==
    ~\E k \in 1..Len(s), j \in 1..Len(s) : k < j /\ s[k] = opener /\ s[j] = Brace

PastPtyLoop(x) == x.at \in {"Shell", "UsePTY", "serving", "closed", "panicked"}
                     \/ (x.at = "returned" /\ x.shell)

\* C36: the pseudo-terminal request is attempted at most 3 times, with a wait
\* of k seconds after the k-th failed attempt; the handler falls back to
\* per-command execution exactly when all 3 attempts failed, and starts the
\* interactive shell exactly when one of them succeeded.
C36_PtyRetriedThreeTimesThenFallback ==
    \A t \in Terminals :
        LET x == term[t]
            failed == x.tries - (IF x.ptySuccess THEN 1 ELSE 0)
        IN  /\ x.tries <= 3
            /\ Len(x.waits) = failed
            /\ \A k \in 1..Len(x.waits) : x.waits[k] = k
            /\ x.mode = "commands" => failed = 3 /\ ~x.ptySuccess
            /\ (PastPtyLoop(x) /\ failed = 3) => x.mode = "commands" /\ ~x.shell
            /\ x.shell => x.ptySuccess /\ failed < 3
            /\ (PastPtyLoop(x) /\ x.ptySuccess /\ x.at # "Shell") => x.shell

C36_Witness ==
    \E t \in Terminals :
        /\ term[t].at = "serving" /\ term[t].mode = "commands"
        /\ term[t].waits = <<1, 2, 3>> /\ term[t].tries = 3

\* The connection has stored its entry and has not yet closed its session.
Registered(t) ==
    term[t].at \in {"StdinPipe", "StdoutPipe", "RequestPty", "Shell", "UsePTY", "serving"}

\* C39: an entry of the session registry exists exactly while its terminal
\* session is live: every stored entry belongs to a live session, and every
\* connection that has registered and not closed finds its own entry under
\* its node id, whatever another connection with the same node id does.
C39_EntryExactlyWhileSessionLive ==
    /\ \A n \in TerminalNodeIds :
          sshSessions[n] # NoEntry => term[sshSessions[n].owner].live
    /\ \A t \in Terminals :
          (Registered(t) /\ term[t].live) => sshSessions[term[t].nodeId].owner = t

\* What the code does: an entry is stored by a connection with that node id
\* that got as far as registering, and only a close handler for that node
\* id takes it away; a connection reaches the UsePTY update without an
\* entry only after another connection with its node id was closed by the
\* client.
EntryStoredByRegisteredConnection ==
    /\ \A n \in TerminalNodeIds :
          sshSessions[n] # NoEntry =>
              /\ term[sshSessions[n].owner].nodeId = n
              /\ term[sshSessions[n].owner].at \notin {"handler", "register"}
    /\ \A t \in Terminals :
          (Registered(t) /\ sshSessions[term[t].nodeId] = NoEntry) =>
              \E u \in Terminals \ {t} :
                  term[u].nodeId = term[t].nodeId /\ term[u].at = "closed"
    /\ sshMu # 0 => term[sshMu].at = "panicked"

IsPrefix(s, t) == Len(s) <= Len(t) /\ \A k \in 1..Len(s) : s[k] = t[k]
Terminal(status) == status \in {"success", "error"}

\* C37: over the whole run of a deployment task the progress percentage
\* never decreases, log lines are only appended, and once the status is
\* success or error neither the status nor the progress changes again.
C37_ProgressMonotoneLogsAppendOnly ==
    [][ /\ task'.Progress >= task.Progress
        /\ IsPrefix(task.Logs, task'.Logs)
        /\ Terminal(task.Status) =>
              task'.Status = task.Status /\ task'.Progress = task.Progress ]_vars

C37_Witness ==
    /\ task.at = "ended" /\ task.Status = "success"
    /\ task.Progress = 100 /\ Len(task.Logs) = 12

\* C38: every deployment task the endpoint starts reaches status success or
\* error when every remote operation returns: its goroutine stops only with
\* one of the two stored, for every request, the empty node list included.
C38_TaskEndsInSuccessOrError ==
    task.at \in {"ended", "panicked"} => Terminal(task.Status)

\* What the code does: a goroutine that returns has stored success or error;
\* with an empty node list it panics in the fourth step, the status still
\* "deploying" at 60 percent.
TaskPanicsOnlyOnEmptyList ==
    /\ task.at = "ended" => Terminal(task.Status)
    /\ task.at = "panicked" =>
          /\ Len(task.Nodes) = 0 /\ task.i = 4
          /\ task.Status = "deploying" /\ task.Progress = 60
    /\ (Len(task.Nodes) = 0 /\ task.at = "ended") => FALSE

\* Request t is at SaveNode's write of nodesMap.
SavingNode(t) == ~Finished(t) /\ Current(t).do = "write" /\ Current(t).on = "nodesMap"

\* C40: a successful single connectivity test registers its node under an
\* identifier no registered node uses: in every interleaving of single and
\* batch tests, the write SaveNode makes for a single test is to a key that
\* is not in nodesMap.
C40_SingleTestRegistersUnderFreshId ==
    [][ \A t \in Requesters :
          (hkind[t] = "SSHTestHandler" /\ SavingNode(t) /\ hpc'[t] # hpc[t])
              => hloc[t].id \notin nodesMap ]_vars

\* What the code does: the identifier of a single test is one more than a
\* length nodesMap had at some time before the write.
SingleTestIdIsALengthPlusOne ==
    \A t \in Requesters :
        (hkind[t] = "SSHTestHandler" /\ SavingNode(t)) =>
            hloc[t].id \in 1..(Cardinality(nodesMap) + 1)
=============================================================================
